---- MODULE Spec2Model ----
(***************************************************************************)
(* FABLAB marketplace backend: pricing calculator, listing ledger,         *)
(* checkout orchestrator and fulfillment status tracker.                   *)
(*                                                                         *)
(* Money is counted in paise (1/100 rupee) and volume in 1/100 cm3, so     *)
(* that every two-decimal value of the program is an integer here.         *)
(* round(x, 2) of the program is RoundDiv on the exact quotient; on an     *)
(* exact decimal tie it rounds half to even, as Python's round does on an  *)
(* exactly representable tie.                                              *)
(***************************************************************************)
EXTENDS Integers, Sequences, FiniteSets, TLC

VARIABLES products, nextProduct, orders, transactions, gatewayOrders, last, calc, pending,
          seen, reviews, nextReview, calls, verifying, toggling

\* the reviews collection and the review requests in flight
reviewVars == <<reviews, nextReview, calls>>

\* the verifications and the publish toggles in flight
flightVars == <<verifying, toggling>>

vars ==
    <<products, nextProduct, orders, transactions, gatewayOrders, last, calc, pending, seen,
      reviewVars, flightVars>>

(***************************************************************************)
(* Bounds of the model                                                     *)
(***************************************************************************)
MaxProducts == 2
MaxOrders == 2
MaxVolume == 8
MaxReviews == 3
MaxCalls == 2

(***************************************************************************)
(* Identity provider: users and their roles                                *)
(***************************************************************************)
Users == {"buyer1", "buyer2", "seller1", "admin1", "admin2"}

Role(u) == CASE u \in {"buyer1", "buyer2"} -> "buyer"
             [] u = "seller1" -> "seller"
             [] u \in {"admin1", "admin2"} -> "admin"

NULL == "null"

ProductIdNames == <<"p1", "p2", "p3", "p4">>

ProductId(i) == ProductIdNames[i]

AllProductIds == {ProductId(i) : i \in 1..MaxProducts}

(***************************************************************************)
(* Pricing calculator                                                      *)
(***************************************************************************)
ValidMaterials == {"PLA", "ABS", "Resin"}

\* round(n / d) with ties to even, n >= 0, d > 0
RoundDiv(n, d) ==
    LET q == n \div d
        r == n % d
    IN  IF 2 * r > d THEN q + 1
        ELSE IF 2 * r < d THEN q
        ELSE IF q % 2 = 1 THEN q + 1 ELSE q

\* a mutation: an unknown material has no rate
material_rates_known_only(material) ==
    CASE material = "PLA" -> 5
      [] material = "ABS" -> 6
      [] material = "Resin" -> 8
      [] OTHER -> 0

material_rates(material) ==
    CASE material = "PLA" -> 5
      [] material = "ABS" -> 6
      [] material = "Resin" -> 8
      [] OTHER -> 5

\* the final price is rounded from the unrounded sum of the three components
FinalPricePaise(base, royalty_percent) == RoundDiv(base * (100 + 20 + royalty_percent), 100)

calculate_price(volume_cm3, material, creator_royalty_percent) ==
    LET rate == material_rates(material)
        base == volume_cm3 * rate
    IN  [volume_cm3 |-> volume_cm3,
         material |-> material,
         rate_per_cm3 |-> rate,
         base_cost |-> base,
         platform_margin |-> RoundDiv(base * 20, 100),
         creator_royalty_percent |-> creator_royalty_percent,
         creator_royalty |-> RoundDiv(base * creator_royalty_percent, 100),
         final_price |-> FinalPricePaise(base, creator_royalty_percent)]

DEFAULT_ROYALTY == 10

MIN_ROYALTY == 0

MAX_ROYALTY == 50

(***************************************************************************)
(* Geometry volume extractor: a mesh either parses to a volume or not      *)
(***************************************************************************)
Meshes(volumes) == [parses : {TRUE}, volume : volumes] \cup [parses : {FALSE}, volume : {0}]

\* a mutation: an unparsable mesh has volume 0
calculate_stl_volume_lenient(stl) == IF stl.parses THEN stl.volume ELSE 0

\* -1 stands for the ValueError raised on an unparsable mesh
calculate_stl_volume(stl) == IF stl.parses THEN stl.volume ELSE -1

(***************************************************************************)
(* Result of the last request                                              *)
(***************************************************************************)
\* before: how many orders and transactions the store held when the request came;
\* sent: the notifications the request handed to the email service, in order;
\* trace: the calls upload_stl made on the mesh, in order, each with its outcome
Reply(user, op, code, arg, ret, gw) ==
    [user |-> user, op |-> op, code |-> code, arg |-> arg, ret |-> ret, gateway_called |-> gw,
     sent |-> <<>>,
     trace |-> <<>>,
     before |-> [orders |-> Len(orders), transactions |-> Len(transactions)]]

(***************************************************************************)
(* Listing ledger                                                          *)
(***************************************************************************)
\* a mutation: a listing is uploaded approved
NewProductApproved(user, material, pricing) ==
    [seller_id |-> user,
     material |-> material,
     volume_cm3 |-> pricing.volume_cm3,
     base_cost |-> pricing.base_cost,
     platform_margin |-> pricing.platform_margin,
     creator_royalty_percent |-> pricing.creator_royalty_percent,
     creator_royalty |-> pricing.creator_royalty,
     final_price |-> pricing.final_price,
     is_published |-> FALSE,
     is_approved |-> TRUE,
     avg_rating |-> 0,
     review_count |-> 0]

NewProduct(user, material, pricing) ==
    [seller_id |-> user,
     material |-> material,
     volume_cm3 |-> pricing.volume_cm3,
     base_cost |-> pricing.base_cost,
     platform_margin |-> pricing.platform_margin,
     creator_royalty_percent |-> pricing.creator_royalty_percent,
     creator_royalty |-> pricing.creator_royalty,
     final_price |-> pricing.final_price,
     is_published |-> FALSE,
     is_approved |-> FALSE,
     avg_rating |-> 0,
     review_count |-> 0]

ListingUnchanged == UNCHANGED <<products, nextProduct>>

\* one call of upload_stl on the mesh; ok: the mesh parses, the blob store accepts
Called(call, ok) == [call |-> call, ok |-> ok]

CheckoutUnchanged == UNCHANGED <<orders, transactions, gatewayOrders>>

upload_stl(user, material, creator_royalty_percent, stl, blob_ok) ==
    /\ nextProduct <= MaxProducts
    /\ CheckoutUnchanged
    /\ UNCHANGED <<calc, pending, seen, reviewVars, flightVars>>
    /\ IF Role(user) # "seller"
       THEN /\ last' = Reply(user, "upload_stl", 403, NULL, NULL, FALSE)
            /\ ListingUnchanged
       ELSE IF material \notin ValidMaterials
       THEN /\ last' = Reply(user, "upload_stl", 400, NULL, NULL, FALSE)
            /\ ListingUnchanged
       ELSE IF creator_royalty_percent < MIN_ROYALTY \/ creator_royalty_percent > MAX_ROYALTY
       THEN /\ last' = Reply(user, "upload_stl", 400, NULL, NULL, FALSE)
            /\ ListingUnchanged
       ELSE IF calculate_stl_volume(stl) < 0
       THEN /\ last' = [Reply(user, "upload_stl", 400, NULL, NULL, FALSE)
                           EXCEPT !.trace = <<Called("calculate_stl_volume", stl.parses)>>]
            /\ ListingUnchanged
       ELSE IF ~blob_ok
       THEN /\ last' = [Reply(user, "upload_stl", 500, NULL, NULL, FALSE)
                           EXCEPT !.trace = <<Called("calculate_stl_volume", stl.parses),
                                              Called("calculate_price", TRUE),
                                              Called("upload_file", FALSE)>>]
            /\ ListingUnchanged
       ELSE LET pricing == calculate_price(calculate_stl_volume(stl), material,
                                           creator_royalty_percent)
                id == ProductId(nextProduct)
            IN  /\ products' = (id :> NewProduct(user, material, pricing)) @@ products
                /\ nextProduct' = nextProduct + 1
                /\ last' = [Reply(user, "upload_stl", 200, id, pricing.final_price, FALSE)
                               EXCEPT !.trace = <<Called("calculate_stl_volume", stl.parses),
                                                  Called("calculate_price", TRUE),
                                                  Called("upload_file", TRUE),
                                                  Called("insert_one", TRUE)>>]

\* the $set of update_product_volume: the fields it writes from the new pricing
VolumeUpdate(product, pricing) ==
    [product EXCEPT !.volume_cm3 = pricing.volume_cm3,
                    !.base_cost = pricing.base_cost,
                    !.platform_margin = pricing.platform_margin,
                    !.final_price = pricing.final_price]

\* a mutation: the orders of the listing are repriced with it
update_product_volume_reprices_orders(user, product_id, volume_cm3) ==
    /\ UNCHANGED <<transactions, gatewayOrders, nextProduct, calc, pending, seen, reviewVars, flightVars>>
    /\ IF product_id \notin DOMAIN products \/ Role(user) \notin {"admin", "seller"}
          \/ volume_cm3 <= 0
       THEN /\ last' = Reply(user, "update_product_volume", 400, product_id, NULL, FALSE)
            /\ UNCHANGED <<products, orders>>
       ELSE LET pricing == calculate_price(volume_cm3, products[product_id].material,
                                           DEFAULT_ROYALTY)
            IN  /\ products' = [products EXCEPT
                                  ![product_id] = VolumeUpdate(products[product_id], pricing)]
                /\ orders' = [i \in 1..Len(orders) |->
                                 IF orders[i].product_id = product_id
                                 THEN [orders[i] EXCEPT !.total_amount =
                                          pricing.final_price * orders[i].quantity]
                                 ELSE orders[i]]
                /\ last' = Reply(user, "update_product_volume", 200, product_id,
                                 pricing.final_price, FALSE)

update_product_volume(user, product_id, volume_cm3) ==
    /\ CheckoutUnchanged
    /\ UNCHANGED <<nextProduct, calc, pending, seen, reviewVars, flightVars>>
    /\ IF product_id \notin DOMAIN products
       THEN /\ last' = Reply(user, "update_product_volume", 404, product_id, NULL, FALSE)
            /\ UNCHANGED products
       ELSE IF Role(user) \notin {"admin", "seller"}
       THEN /\ last' = Reply(user, "update_product_volume", 403, product_id, NULL, FALSE)
            /\ UNCHANGED products
       ELSE IF Role(user) = "seller" /\ products[product_id].seller_id # user
       THEN /\ last' = Reply(user, "update_product_volume", 403, product_id, NULL, FALSE)
            /\ UNCHANGED products
       ELSE IF volume_cm3 <= 0
       THEN /\ last' = Reply(user, "update_product_volume", 400, product_id, NULL, FALSE)
            /\ UNCHANGED products
       ELSE LET pricing == calculate_price(volume_cm3, products[product_id].material,
                                           DEFAULT_ROYALTY)
            IN  /\ products' = [products EXCEPT
                                  ![product_id] = VolumeUpdate(products[product_id], pricing)]
                /\ last' = Reply(user, "update_product_volume", 200, product_id,
                                 pricing.final_price, FALSE)

\* a mutation: the listing is found by its id alone
toggle_publish_any_user(user, product_id) ==
    /\ CheckoutUnchanged
    /\ UNCHANGED <<nextProduct, calc, pending, seen, reviewVars, flightVars>>
    /\ IF product_id \notin DOMAIN products
       THEN /\ last' = Reply(user, "toggle_publish", 404, product_id, NULL, FALSE)
            /\ UNCHANGED products
       ELSE LET new_status == ~products[product_id].is_published
            IN  /\ products' = [products EXCEPT ![product_id].is_published = new_status]
                /\ last' = Reply(user, "toggle_publish", 200, product_id, new_status, FALSE)

toggle_publish(user, product_id) ==
    /\ CheckoutUnchanged
    /\ UNCHANGED <<nextProduct, calc, pending, seen, reviewVars, flightVars>>
    /\ IF product_id \notin DOMAIN products \/ products[product_id].seller_id # user
       THEN /\ last' = Reply(user, "toggle_publish", 404, product_id, NULL, FALSE)
            /\ UNCHANGED products
       ELSE LET new_status == ~products[product_id].is_published
            IN  /\ products' = [products EXCEPT ![product_id].is_published = new_status]
                /\ last' = Reply(user, "toggle_publish", 200, product_id, new_status, FALSE)

\* The same handler one await at a time: the listing is read, then written.
NoToggle == [phase |-> "idle", user |-> NULL, product_id |-> NULL, new_status |-> FALSE]

NoToggling == [c \in 1..MaxCalls |-> NoToggle]

\* db.products.find_one on the id and the seller, and the negation of the flag it read
toggle_publish_begin(c, user, product_id) ==
    /\ toggling[c].phase = "idle"
    /\ ListingUnchanged
    /\ CheckoutUnchanged
    /\ UNCHANGED <<calc, pending, seen, reviewVars, verifying>>
    /\ IF product_id \notin DOMAIN products \/ products[product_id].seller_id # user
       THEN /\ last' = Reply(user, "toggle_publish", 404, product_id, NULL, FALSE)
            /\ UNCHANGED toggling
       ELSE /\ toggling' = [toggling EXCEPT ![c] =
                                [phase |-> "write", user |-> user, product_id |-> product_id,
                                 new_status |-> ~products[product_id].is_published]]
            /\ UNCHANGED last

\* db.products.update_one on the id, and the reply
toggle_publish_write(c) ==
    /\ toggling[c].phase = "write"
    /\ CheckoutUnchanged
    /\ UNCHANGED <<nextProduct, calc, pending, seen, reviewVars, verifying>>
    /\ products' = IF toggling[c].product_id \in DOMAIN products
                   THEN [products EXCEPT ![toggling[c].product_id].is_published =
                                             toggling[c].new_status]
                   ELSE products
    /\ last' = Reply(toggling[c].user, "toggle_publish", 200, toggling[c].product_id,
                     toggling[c].new_status, FALSE)
    /\ toggling' = [toggling EXCEPT ![c] = NoToggle]

approve_product(user, product_id, approved) ==
    /\ CheckoutUnchanged
    /\ UNCHANGED <<nextProduct, calc, pending, seen, reviewVars, flightVars>>
    /\ IF Role(user) # "admin"
       THEN /\ last' = Reply(user, "approve_product", 403, product_id, NULL, FALSE)
            /\ UNCHANGED products
       ELSE IF product_id \notin DOMAIN products
       THEN /\ last' = Reply(user, "approve_product", 404, product_id, NULL, FALSE)
            /\ UNCHANGED products
       ELSE /\ products' = [products EXCEPT ![product_id].is_approved = approved]
            /\ last' = Reply(user, "approve_product", 200, product_id, approved, FALSE)

RemoveProduct(product_id) == [p \in DOMAIN products \ {product_id} |-> products[p]]

delete_product(user, product_id) ==
    /\ CheckoutUnchanged
    /\ UNCHANGED <<nextProduct, calc, pending, seen, reviewVars, flightVars>>
    /\ IF product_id \notin DOMAIN products \/ products[product_id].seller_id # user
       THEN /\ last' = Reply(user, "delete_product", 404, product_id, NULL, FALSE)
            /\ UNCHANGED products
       ELSE /\ products' = RemoveProduct(product_id)
            /\ last' = Reply(user, "delete_product", 200, product_id, NULL, FALSE)

admin_delete_product(user, product_id) ==
    /\ CheckoutUnchanged
    /\ UNCHANGED <<nextProduct, calc, pending, seen, reviewVars, flightVars>>
    /\ IF Role(user) # "admin"
       THEN /\ last' = Reply(user, "admin_delete_product", 403, product_id, NULL, FALSE)
            /\ UNCHANGED products
       ELSE IF product_id \notin DOMAIN products
       THEN /\ last' = Reply(user, "admin_delete_product", 404, product_id, NULL, FALSE)
            /\ UNCHANGED products
       ELSE /\ products' = RemoveProduct(product_id)
            /\ last' = Reply(user, "admin_delete_product", 200, product_id, NULL, FALSE)

(***************************************************************************)
(* Checkout orchestrator                                                   *)
(***************************************************************************)
ORDER_PLACED == "Order placed"

CartItems(product_ids, quantities) == [product_id : product_ids, quantity : quantities]

\* the carts of at most max_len lines
Carts(product_ids, quantities, max_len) ==
    UNION {[1..n -> CartItems(product_ids, quantities)] : n \in 0..max_len}

\* a mutation: the approval flag is not looked at
LineErrorApprovalIgnored(item) ==
    IF item.product_id \notin DOMAIN products THEN 404
    ELSE IF ~products[item.product_id].is_published THEN 400
    ELSE 0

\* 0 when the line passes: 404 for a missing listing, 400 for an unavailable one
LineError(item) ==
    IF item.product_id \notin DOMAIN products THEN 404
    ELSE IF ~products[item.product_id].is_published \/ ~products[item.product_id].is_approved
    THEN 400
    ELSE 0

\* a mutation: the empty cart is let through
CartIsEmptyIgnored(items) == FALSE

CartIsEmpty(items) == Len(items) = 0

\* the first line at which the loop of create_order raises, 0 if it completes
FirstBadLine(items) ==
    IF \E i \in 1..Len(items) : LineError(items[i]) # 0
    THEN CHOOSE i \in 1..Len(items) :
             /\ LineError(items[i]) # 0
             /\ \A j \in 1..(i - 1) : LineError(items[j]) = 0
    ELSE 0

\* a mutation: the quantity is left out of the line amount
OrderAmountUnitPrice(final_price, quantity) == final_price

OrderAmount(final_price, quantity) == final_price * quantity

\* a mutation: the order is built with a payment id
NewOrderPaid(id, user, item) ==
    [id |-> id,
     buyer_id |-> user,
     seller_id |-> products[item.product_id].seller_id,
     product_id |-> item.product_id,
     quantity |-> item.quantity,
     total_amount |-> OrderAmount(products[item.product_id].final_price, item.quantity),
     status |-> ORDER_PLACED,
     razorpay_order_id |-> NULL,
     razorpay_payment_id |-> "pay_1"]

NewOrder(id, user, item) ==
    [id |-> id,
     buyer_id |-> user,
     seller_id |-> products[item.product_id].seller_id,
     product_id |-> item.product_id,
     quantity |-> item.quantity,
     total_amount |-> OrderAmount(products[item.product_id].final_price, item.quantity),
     status |-> ORDER_PLACED,
     razorpay_order_id |-> NULL,
     razorpay_payment_id |-> NULL]

\* the pending orders built by the loop, none persisted yet
PendingOrders(user, items) ==
    [i \in 1..Len(items) |-> NewOrder(Len(orders) + i, user, items[i])]

RECURSIVE SumAmounts(_)
SumAmounts(batch) ==
    IF Len(batch) = 0 THEN 0
    ELSE batch[1].total_amount + SumAmounts(Tail(batch))

\* a mutation: the gateway order id is not written on the orders
StampNothing(batch, gateway_id) == batch

Stamp(batch, gateway_id) ==
    [i \in 1..Len(batch) |-> [batch[i] EXCEPT !.razorpay_order_id = gateway_id]]

\* a mutation: the transaction names the order of the last cart line
RepresentativeLast(batch) == batch[Len(batch)].id

\* orders[0]["id"]: the transaction names the order of the first cart line
Representative(batch) == batch[1].id

\* a mutation: the transaction is persisted as completed
NewTransactionCompleted(order_id, gateway_id, amount) ==
    [order_id |-> order_id,
     razorpay_order_id |-> gateway_id,
     razorpay_payment_id |-> NULL,
     amount |-> amount,
     status |-> "completed"]

NewTransaction(order_id, gateway_id, amount) ==
    [order_id |-> order_id,
     razorpay_order_id |-> gateway_id,
     razorpay_payment_id |-> NULL,
     amount |-> amount,
     status |-> "created"]

GatewayIdNames == <<"order_1", "order_2", "order_3", "order_4">>

\* razorpay_client.order.create: a fresh gateway order id, n ids issued so far
GatewayOrderId(n) == GatewayIdNames[n + 1]

AllGatewayIds == {GatewayIdNames[i] : i \in 1..MaxOrders}

\* a mutation: the batch is written before the gateway answers
OrdersOnGatewayFailurePersisted(batch) == orders \o batch

\* the orders collection when order.create raises: the inserts are never reached
OrdersOnGatewayFailure(batch) == orders

\* the body of a rejection: the detail names the product of the offending line
Rejection(detail, product_id, line) ==
    [detail |-> detail, product_id |-> product_id, line |-> line]

\* the continuation common to both checkouts, from the gateway call on
Charge(user, op, arg, batch, total_amount, gateway_ok) ==
    IF ~gateway_ok
    THEN /\ orders' = OrdersOnGatewayFailure(batch)
         /\ UNCHANGED <<transactions, gatewayOrders>>
         /\ last' = Reply(user, op, 500, arg, Rejection("gateway error", NULL, 0), TRUE)
    ELSE LET gateway_id == GatewayOrderId(gatewayOrders)
             stamped == Stamp(batch, gateway_id)
         IN  /\ gatewayOrders' = gatewayOrders + 1
             /\ orders' = orders \o stamped
             /\ IF Len(batch) = 0
                THEN /\ UNCHANGED transactions
                     /\ last' = Reply(user, op, 500, arg, Rejection("list index out of range", NULL, 0),
                                      TRUE)
                ELSE /\ transactions' = Append(transactions,
                             NewTransaction(Representative(stamped), gateway_id, total_amount))
                     /\ last' = Reply(user, op, 200, arg,
                             [razorpay_order_id |-> gateway_id, amount |-> total_amount],
                             TRUE)

create_order(user, items, gateway_ok) ==
    /\ Len(orders) + Len(items) <= MaxOrders
    /\ ListingUnchanged
    /\ UNCHANGED <<calc, pending, seen, reviewVars, flightVars>>
    /\ IF CartIsEmpty(items)
       THEN /\ last' = Reply(user, "create_order", 400, NULL, Rejection("Cart is empty", NULL, 0),
                             FALSE)
            /\ CheckoutUnchanged
       ELSE IF FirstBadLine(items) # 0
       THEN LET line == FirstBadLine(items)
                code == LineError(items[line])
            IN  /\ last' = Reply(user, "create_order", code, NULL,
                                 Rejection(IF code = 404 THEN "not found"
                                           ELSE "is not available",
                                           items[line].product_id, line),
                                 FALSE)
                /\ CheckoutUnchanged
       ELSE LET batch == PendingOrders(user, items)
            IN  Charge(user, "create_order", items, batch, SumAmounts(batch), gateway_ok)

\* no cart checkout is in flight
NoPending ==
    [phase |-> "idle", user |-> NULL, items |-> <<>>, batch |-> <<>>, gateway_id |-> NULL,
     written |-> 0, before |-> [orders |-> 0, transactions |-> 0]]

\* create_order step by step: the handler runs between awaits, and the process may
\* die at any of them. pending is the call in flight: its phase is the next await.
create_order_begin(user, items) ==
    /\ pending.phase = "idle"
    /\ Len(orders) + Len(items) <= MaxOrders
    /\ gatewayOrders < MaxOrders
    /\ ListingUnchanged
    /\ CheckoutUnchanged
    /\ UNCHANGED <<calc, seen, reviewVars, flightVars>>
    /\ IF CartIsEmpty(items)
       THEN /\ last' = Reply(user, "create_order", 400, NULL,
                             Rejection("Cart is empty", NULL, 0), FALSE)
            /\ UNCHANGED pending
       ELSE /\ pending' = [phase |-> "lines", user |-> user, items |-> items,
                           batch |-> <<>>, gateway_id |-> NULL, written |-> 0,
                           before |-> [orders |-> Len(orders),
                                       transactions |-> Len(transactions)]]
            /\ UNCHANGED last

\* one turn of the validation loop: find_one on the listing, then the line's order
create_order_line ==
    /\ pending.phase = "lines"
    /\ ListingUnchanged
    /\ CheckoutUnchanged
    /\ UNCHANGED <<calc, seen, reviewVars, flightVars>>
    /\ LET line == Len(pending.batch) + 1
           item == pending.items[line]
           code == LineError(item)
       IN  IF code # 0
           THEN /\ last' = [Reply(pending.user, "create_order", code, NULL,
                                  Rejection(IF code = 404 THEN "not found"
                                            ELSE "is not available",
                                            item.product_id, line),
                                  FALSE)
                               EXCEPT !.before = pending.before]
                /\ pending' = NoPending
           ELSE /\ pending' = [pending EXCEPT
                                  !.batch = Append(@, NewOrder(pending.before.orders + line,
                                                               pending.user, item)),
                                  !.phase = IF line = Len(pending.items) THEN "gateway"
                                            ELSE "lines"]
                /\ UNCHANGED last

\* razorpay_client.order.create
create_order_gateway(gateway_ok) ==
    /\ pending.phase = "gateway"
    /\ ListingUnchanged
    /\ UNCHANGED <<orders, transactions, calc, seen, reviewVars, flightVars>>
    /\ IF ~gateway_ok
       THEN /\ last' = [Reply(pending.user, "create_order", 500, pending.items,
                              Rejection("gateway error", NULL, 0), TRUE)
                           EXCEPT !.before = pending.before]
            /\ pending' = NoPending
            /\ UNCHANGED gatewayOrders
       ELSE /\ gatewayOrders' = gatewayOrders + 1
            /\ pending' = [pending EXCEPT !.gateway_id = GatewayOrderId(gatewayOrders),
                                          !.phase = "orders"]
            /\ UNCHANGED last

\* one turn of the insert loop: the order is stamped, then inserted
create_order_insert_order ==
    /\ pending.phase = "orders"
    /\ ListingUnchanged
    /\ UNCHANGED <<transactions, gatewayOrders, last, calc, seen, reviewVars, flightVars>>
    /\ orders' = Append(orders,
                        Stamp(pending.batch, pending.gateway_id)[pending.written + 1])
    /\ pending' = [pending EXCEPT !.written = @ + 1,
                                  !.phase = IF pending.written + 1 = Len(pending.batch)
                                            THEN "transaction" ELSE "orders"]

\* the transaction is inserted and the handler returns
create_order_insert_transaction ==
    /\ pending.phase = "transaction"
    /\ ListingUnchanged
    /\ UNCHANGED <<orders, gatewayOrders, calc, seen, reviewVars, flightVars>>
    /\ transactions' = Append(transactions,
                              NewTransaction(Representative(pending.batch), pending.gateway_id,
                                             SumAmounts(pending.batch)))
    /\ last' = [Reply(pending.user, "create_order", 200, pending.items,
                      [razorpay_order_id |-> pending.gateway_id,
                       amount |-> SumAmounts(pending.batch)],
                      TRUE)
                   EXCEPT !.before = pending.before]
    /\ pending' = NoPending

\* the process dies while a checkout is in flight: the call never answers (code 0),
\* and the store keeps what was written so far
crash ==
    /\ pending.phase # "idle"
    /\ ListingUnchanged
    /\ CheckoutUnchanged
    /\ UNCHANGED <<calc, seen, reviewVars, flightVars>>
    /\ last' = [Reply(pending.user, "create_order", 0, pending.items,
                      [razorpay_order_id |-> pending.gateway_id, detail |-> "crashed"],
                      pending.gateway_id # NULL)
                   EXCEPT !.before = pending.before]
    /\ pending' = NoPending

CUSTOM_SELLER == "custom_print"

CUSTOM_PRODUCT == "custom"

create_custom_print_order(user, material, volume_cm3, quantity, gateway_ok) ==
    /\ Len(orders) + 1 <= MaxOrders
    /\ ListingUnchanged
    /\ UNCHANGED <<calc, pending, seen, reviewVars, flightVars>>
    /\ LET pricing == calculate_price(volume_cm3, material, DEFAULT_ROYALTY)
           order_amount == pricing.final_price * quantity
           order_dict == [id |-> Len(orders) + 1,
                          buyer_id |-> user,
                          seller_id |-> CUSTOM_SELLER,
                          product_id |-> CUSTOM_PRODUCT,
                          quantity |-> quantity,
                          total_amount |-> order_amount,
                          status |-> ORDER_PLACED,
                          razorpay_order_id |-> NULL,
                          razorpay_payment_id |-> NULL]
       IN  Charge(user, "create_custom_print_order",
                  [material |-> material, volume_cm3 |-> volume_cm3, quantity |-> quantity],
                  <<order_dict>>, order_amount, gateway_ok)

(***************************************************************************)
(* Payment verification                                                    *)
(***************************************************************************)
PaymentIds == {"pay_1", "pay_2"}

\* utility.verify_payment_signature: returns, or raises on a bad signature
verify_payment_signature(signature_ok) == signature_ok

\* a mutation: update_one where update_many is meant
VerifiedOrdersFirstOnly(os, gateway_id, payment_id) ==
    IF \E i \in 1..Len(os) : os[i].razorpay_order_id = gateway_id
    THEN LET k == CHOOSE i \in 1..Len(os) :
                      /\ os[i].razorpay_order_id = gateway_id
                      /\ \A j \in 1..(i - 1) : os[j].razorpay_order_id # gateway_id
         IN  [os EXCEPT ![k].razorpay_payment_id = payment_id, ![k].status = ORDER_PLACED]
    ELSE os

\* db.orders.update_many on the gateway order id
VerifiedOrders(os, gateway_id, payment_id) ==
    [i \in 1..Len(os) |->
        IF os[i].razorpay_order_id = gateway_id
        THEN [os[i] EXCEPT !.razorpay_payment_id = payment_id, !.status = ORDER_PLACED]
        ELSE os[i]]

\* a mutation: the completed transaction is inserted beside the created one
VerifiedTransactionsInserted(ts, gateway_id, payment_id) ==
    IF \E i \in 1..Len(ts) : ts[i].razorpay_order_id = gateway_id
    THEN LET k == CHOOSE i \in 1..Len(ts) : ts[i].razorpay_order_id = gateway_id
         IN  Append(ts, [ts[k] EXCEPT !.razorpay_payment_id = payment_id,
                                      !.status = "completed"])
    ELSE ts

\* db.transactions.update_one on the gateway order id: the first match
VerifiedTransactions(ts, gateway_id, payment_id) ==
    IF \E i \in 1..Len(ts) : ts[i].razorpay_order_id = gateway_id
    THEN LET k == CHOOSE i \in 1..Len(ts) :
                      /\ ts[i].razorpay_order_id = gateway_id
                      /\ \A j \in 1..(i - 1) : ts[j].razorpay_order_id # gateway_id
         IN  [ts EXCEPT ![k].razorpay_payment_id = payment_id, ![k].status = "completed"]
    ELSE ts

\* db.orders.find on the gateway order id, after the writes
BatchOf(os, gateway_id) == SelectSeq(os, LAMBDA o : o.razorpay_order_id = gateway_id)

\* the outcomes of the email service, one per attempt of a call: TRUE when the
\* message is handed over, FALSE when the send fails or raises
MailOutcomes == [1..(2 * MaxOrders) -> BOOLEAN]

MailUp == [n \in 1..(2 * MaxOrders) |-> TRUE]

send_order_confirmation(user, order, delivered) ==
    [kind |-> "order_confirmation", to |-> user, order_id |-> order.id,
     delivered |-> delivered]

send_new_order_notification_to_seller(seller, order, delivered) ==
    [kind |-> "new_order", to |-> seller, order_id |-> order.id, delivered |-> delivered]

\* a mutation: a failed notification ends the loop
RECURSIVE AttemptsAbortOnFailure(_, _, _, _)
AttemptsAbortOnFailure(batch, user, mail_ok, n) ==
    IF Len(batch) = 0 THEN <<>>
    ELSE LET order == Head(batch)
         IN  IF ~mail_ok[n + 1]
             THEN <<send_order_confirmation(user, order, FALSE)>>
             ELSE IF order.seller_id \notin Users
             THEN <<send_order_confirmation(user, order, TRUE)>>
                      \o AttemptsAbortOnFailure(Tail(batch), user, mail_ok, n + 1)
             ELSE IF ~mail_ok[n + 2]
             THEN <<send_order_confirmation(user, order, TRUE),
                    send_new_order_notification_to_seller(order.seller_id, order, FALSE)>>
             ELSE <<send_order_confirmation(user, order, TRUE),
                    send_new_order_notification_to_seller(order.seller_id, order, TRUE)>>
                      \o AttemptsAbortOnFailure(Tail(batch), user, mail_ok, n + 2)

\* the loop over the orders of the batch, n attempts made so far: one confirmation to
\* the caller and, when the seller is a user, one notification to the seller per
\* order; each attempt sits in its own try block, so a failure ends that attempt only
RECURSIVE Attempts(_, _, _, _)
Attempts(batch, user, mail_ok, n) ==
    IF Len(batch) = 0 THEN <<>>
    ELSE LET order == Head(batch)
             to_buyer == <<send_order_confirmation(user, order, mail_ok[n + 1])>>
             to_seller == IF order.seller_id \in Users
                          THEN <<send_new_order_notification_to_seller(
                                     order.seller_id, order, mail_ok[n + 2])>>
                          ELSE <<>>
         IN  to_buyer \o to_seller
                 \o Attempts(Tail(batch), user, mail_ok, n + 1 + Len(to_seller))

\* the form of a verification request; razorpay_signature is whether it is valid
VerifyForm(razorpay_order_id, razorpay_payment_id, signature_ok) ==
    [razorpay_order_id |-> razorpay_order_id,
     razorpay_payment_id |-> razorpay_payment_id,
     razorpay_signature |-> signature_ok]

\* a mutation: the writes are made before the signature is checked
verify_payment_write_first(user, razorpay_order_id, razorpay_payment_id, signature_ok, mail_ok) ==
    /\ ListingUnchanged
    /\ UNCHANGED <<gatewayOrders, calc, pending, seen, reviewVars, flightVars>>
    /\ orders' = VerifiedOrders(orders, razorpay_order_id, razorpay_payment_id)
    /\ transactions' = VerifiedTransactions(transactions, razorpay_order_id,
                                            razorpay_payment_id)
    /\ last' = Reply(user, "verify_payment",
                     IF verify_payment_signature(signature_ok) THEN 200 ELSE 400,
                     VerifyForm(razorpay_order_id, razorpay_payment_id, signature_ok),
                     NULL, FALSE)

verify_payment(user, razorpay_order_id, razorpay_payment_id, signature_ok, mail_ok) ==
    /\ ListingUnchanged
    /\ UNCHANGED <<gatewayOrders, calc, pending, seen, reviewVars, flightVars>>
    /\ IF ~verify_payment_signature(signature_ok)
       THEN /\ UNCHANGED <<orders, transactions>>
            /\ last' = Reply(user, "verify_payment", 400,
                             VerifyForm(razorpay_order_id, razorpay_payment_id, signature_ok),
                             NULL, FALSE)
       ELSE /\ orders' = VerifiedOrders(orders, razorpay_order_id, razorpay_payment_id)
            /\ transactions' = VerifiedTransactions(transactions, razorpay_order_id,
                                                    razorpay_payment_id)
            /\ last' = [Reply(user, "verify_payment", 200,
                              VerifyForm(razorpay_order_id, razorpay_payment_id,
                                         signature_ok),
                              NULL, FALSE)
                           EXCEPT !.sent = Attempts(BatchOf(orders', razorpay_order_id),
                                                    user, mail_ok, 0)]

\* The same handler one await at a time: the signature check, update_many on the orders,
\* then update_one on the transaction with the notifications and the reply.
NoVerify == [phase |-> "idle", user |-> NULL, razorpay_order_id |-> NULL,
             razorpay_payment_id |-> NULL]

NoVerifying == [c \in 1..MaxCalls |-> NoVerify]

verify_payment_begin(c, user, razorpay_order_id, razorpay_payment_id, signature_ok) ==
    /\ verifying[c].phase = "idle"
    /\ ListingUnchanged
    /\ CheckoutUnchanged
    /\ UNCHANGED <<calc, pending, seen, reviewVars, toggling>>
    /\ IF ~verify_payment_signature(signature_ok)
       THEN /\ last' = Reply(user, "verify_payment", 400,
                             VerifyForm(razorpay_order_id, razorpay_payment_id, signature_ok),
                             NULL, FALSE)
            /\ UNCHANGED verifying
       ELSE /\ verifying' = [verifying EXCEPT ![c] =
                                 [phase |-> "orders", user |-> user,
                                  razorpay_order_id |-> razorpay_order_id,
                                  razorpay_payment_id |-> razorpay_payment_id]]
            /\ UNCHANGED last

verify_payment_orders(c) ==
    /\ verifying[c].phase = "orders"
    /\ ListingUnchanged
    /\ UNCHANGED <<transactions, gatewayOrders, last, calc, pending, seen, reviewVars, toggling>>
    /\ orders' = VerifiedOrders(orders, verifying[c].razorpay_order_id,
                                verifying[c].razorpay_payment_id)
    /\ verifying' = [verifying EXCEPT ![c].phase = "transaction"]

verify_payment_transaction(c) ==
    /\ verifying[c].phase = "transaction"
    /\ ListingUnchanged
    /\ UNCHANGED <<orders, gatewayOrders, calc, pending, seen, reviewVars, toggling>>
    /\ transactions' = VerifiedTransactions(transactions, verifying[c].razorpay_order_id,
                                            verifying[c].razorpay_payment_id)
    /\ last' = [Reply(verifying[c].user, "verify_payment", 200,
                      VerifyForm(verifying[c].razorpay_order_id,
                                 verifying[c].razorpay_payment_id, TRUE),
                      NULL, FALSE)
                   EXCEPT !.sent = Attempts(BatchOf(orders, verifying[c].razorpay_order_id),
                                            verifying[c].user, MailUp, 0)]
    /\ verifying' = [verifying EXCEPT ![c] = NoVerify]

(***************************************************************************)
(* Fulfillment status tracker                                              *)
(***************************************************************************)
valid_statuses == <<"Order placed", "Printing", "Post-processing", "Shipped", "Delivered">>

ValidStatusSet == {valid_statuses[i] : i \in 1..Len(valid_statuses)}

\* seen[a][i]: the status of order i in the last list of orders admin a was given,
\* NULL when a has not been shown the order
NoneSeen == [a \in {u \in Users : Role(u) = "admin"} |-> [i \in 1..MaxOrders |-> NULL]]

get_all_orders(user) ==
    /\ ListingUnchanged
    /\ CheckoutUnchanged
    /\ UNCHANGED <<calc, pending, reviewVars, flightVars>>
    /\ IF Role(user) # "admin"
       THEN /\ last' = Reply(user, "get_all_orders", 403, NULL, NULL, FALSE)
            /\ UNCHANGED seen
       ELSE /\ last' = Reply(user, "get_all_orders", 200, NULL, NULL, FALSE)
            /\ seen' = [seen EXCEPT ![user] =
                            [i \in 1..MaxOrders |->
                                IF i <= Len(orders) THEN orders[i].status ELSE NULL]]

\* a mutation: the role of the caller is not looked at
update_order_status_any_role(user, order_id, status) ==
    /\ ListingUnchanged
    /\ UNCHANGED <<transactions, gatewayOrders, calc, pending, seen, reviewVars, flightVars>>
    /\ IF status \notin ValidStatusSet
       THEN /\ UNCHANGED orders
            /\ last' = Reply(user, "update_order_status", 400,
                             [order_id |-> order_id, status |-> status], NULL, FALSE)
       ELSE IF order_id \notin 1..Len(orders)
       THEN /\ UNCHANGED orders
            /\ last' = Reply(user, "update_order_status", 404,
                             [order_id |-> order_id, status |-> status], NULL, FALSE)
       ELSE /\ orders' = [orders EXCEPT ![order_id].status = status]
            /\ last' = Reply(user, "update_order_status", 200,
                             [order_id |-> order_id, status |-> status], NULL, FALSE)

\* a mutation: the requested status is written without the vocabulary check
update_order_status_any_status(user, order_id, status) ==
    /\ ListingUnchanged
    /\ UNCHANGED <<transactions, gatewayOrders, calc, pending, seen, reviewVars, flightVars>>
    /\ IF Role(user) # "admin"
       THEN /\ UNCHANGED orders
            /\ last' = Reply(user, "update_order_status", 403,
                             [order_id |-> order_id, status |-> status], NULL, FALSE)
       ELSE IF order_id \notin 1..Len(orders)
       THEN /\ UNCHANGED orders
            /\ last' = Reply(user, "update_order_status", 404,
                             [order_id |-> order_id, status |-> status], NULL, FALSE)
       ELSE /\ orders' = [orders EXCEPT ![order_id].status = status]
            /\ last' = Reply(user, "update_order_status", 200,
                             [order_id |-> order_id, status |-> status], NULL, FALSE)

\* a mutation: matched_count is not looked at
update_order_status_unmatched_ok(user, order_id, status) ==
    /\ ListingUnchanged
    /\ UNCHANGED <<transactions, gatewayOrders, calc, pending, seen, reviewVars, flightVars>>
    /\ IF Role(user) # "admin"
       THEN /\ UNCHANGED orders
            /\ last' = Reply(user, "update_order_status", 403,
                             [order_id |-> order_id, status |-> status], NULL, FALSE)
       ELSE IF status \notin ValidStatusSet
       THEN /\ UNCHANGED orders
            /\ last' = Reply(user, "update_order_status", 400,
                             [order_id |-> order_id, status |-> status], NULL, FALSE)
       ELSE /\ orders' = [i \in 1..Len(orders) |->
                             IF i = order_id THEN [orders[i] EXCEPT !.status = status]
                             ELSE orders[i]]
            /\ last' = Reply(user, "update_order_status", 200,
                             [order_id |-> order_id, status |-> status], NULL, FALSE)

update_order_status(user, order_id, status) ==
    /\ ListingUnchanged
    /\ UNCHANGED <<transactions, gatewayOrders, calc, pending, seen, reviewVars, flightVars>>
    /\ IF Role(user) # "admin"
       THEN /\ UNCHANGED orders
            /\ last' = Reply(user, "update_order_status", 403,
                             [order_id |-> order_id, status |-> status], NULL, FALSE)
       ELSE IF status \notin ValidStatusSet
       THEN /\ UNCHANGED orders
            /\ last' = Reply(user, "update_order_status", 400,
                             [order_id |-> order_id, status |-> status], NULL, FALSE)
       ELSE IF order_id \notin 1..Len(orders)
       THEN /\ UNCHANGED orders
            /\ last' = Reply(user, "update_order_status", 404,
                             [order_id |-> order_id, status |-> status], NULL, FALSE)
       ELSE /\ orders' = [orders EXCEPT ![order_id].status = status]
            /\ last' = Reply(user, "update_order_status", 200,
                             [order_id |-> order_id, status |-> status], NULL, FALSE)

(***************************************************************************)
(* Reviews                                                                 *)
(*                                                                         *)
(* avg_rating is counted in tenths of a star, so that round(avg, 1) of the *)
(* program is an integer here.  A listing that was never reviewed carries  *)
(* no rating fields in the program and reads as 0 and 0.                   *)
(***************************************************************************)
ReviewIdNames == <<"r1", "r2", "r3", "r4", "r5">>

ReviewId(i) == ReviewIdNames[i]

AllReviewIds == {ReviewId(i) : i \in 1..MaxReviews}

Review(id, user, product_id, rating) ==
    [id |-> id, product_id |-> product_id, buyer_id |-> user, rating |-> rating]

\* db.reviews.find({"product_id": ...})
ReviewsOf(rs, product_id) == {r \in rs : r.product_id = product_id}

RECURSIVE SumRatings(_)
SumRatings(rs) ==
    IF rs = {} THEN 0
    ELSE LET r == CHOOSE x \in rs : TRUE IN r.rating + SumRatings(rs \ {r})

\* a mutation: the mean is cut to one decimal, not rounded
AggregateTruncated(all_reviews) ==
    IF all_reviews = {}
    THEN [avg_rating |-> 0, review_count |-> 0]
    ELSE [avg_rating |-> (10 * SumRatings(all_reviews)) \div Cardinality(all_reviews),
          review_count |-> Cardinality(all_reviews)]

\* the two rating fields the handlers store after a change of the reviews
Aggregate(all_reviews) ==
    IF all_reviews = {}
    THEN [avg_rating |-> 0, review_count |-> 0]
    ELSE [avg_rating |-> RoundDiv(10 * SumRatings(all_reviews), Cardinality(all_reviews)),
          review_count |-> Cardinality(all_reviews)]

\* db.products.update_one({"id": ...}, {"$set": ...}): nothing is written when no listing matches
UpdateRating(ps, product_id, aggregate) ==
    IF product_id \in DOMAIN ps
    THEN [ps EXCEPT ![product_id].avg_rating = aggregate.avg_rating,
                    ![product_id].review_count = aggregate.review_count]
    ELSE ps

ReviewArg(product_id, rating) == [product_id |-> product_id, rating |-> rating]

\* the whole handler, run to completion
create_review(user, product_id, rating) ==
    /\ nextReview <= MaxReviews
    /\ CheckoutUnchanged
    /\ UNCHANGED <<nextProduct, calc, pending, seen, flightVars, calls>>
    /\ IF Role(user) \notin {"buyer", "seller"}
       THEN /\ last' = Reply(user, "create_review", 403, ReviewArg(product_id, rating), NULL, FALSE)
            /\ UNCHANGED <<products, reviews, nextReview>>
       ELSE IF product_id \notin DOMAIN products
       THEN /\ last' = Reply(user, "create_review", 404, ReviewArg(product_id, rating), NULL, FALSE)
            /\ UNCHANGED <<products, reviews, nextReview>>
       ELSE IF \E r \in reviews : r.product_id = product_id /\ r.buyer_id = user
       THEN /\ last' = Reply(user, "create_review", 400, ReviewArg(product_id, rating), NULL, FALSE)
            /\ UNCHANGED <<products, reviews, nextReview>>
       ELSE /\ reviews' = reviews \cup {Review(ReviewId(nextReview), user, product_id, rating)}
            /\ nextReview' = nextReview + 1
            /\ products' = UpdateRating(products, product_id,
                                        Aggregate(ReviewsOf(reviews', product_id)))
            /\ last' = Reply(user, "create_review", 200, ReviewArg(product_id, rating),
                             ReviewId(nextReview), FALSE)

delete_review(user, review_id) ==
    /\ CheckoutUnchanged
    /\ UNCHANGED <<nextProduct, calc, pending, seen, flightVars, nextReview, calls>>
    /\ IF \A r \in reviews : r.id # review_id
       THEN /\ last' = Reply(user, "delete_review", 404, review_id, NULL, FALSE)
            /\ UNCHANGED <<products, reviews>>
       ELSE LET review == CHOOSE r \in reviews : r.id = review_id
            IN  IF review.buyer_id # user /\ Role(user) # "admin"
                THEN /\ last' = Reply(user, "delete_review", 403, review_id, NULL, FALSE)
                     /\ UNCHANGED <<products, reviews>>
                ELSE /\ reviews' = reviews \ {review}
                     /\ products' = UpdateRating(products, review.product_id,
                                                 Aggregate(ReviewsOf(reviews', review.product_id)))
                     /\ last' = Reply(user, "delete_review", 200, review_id, NULL, FALSE)

\* The same handler one await at a time: between two awaits the event loop runs the
\* other requests in flight.
NoCall == [phase |-> "idle", user |-> NULL, product_id |-> NULL, rating |-> 0,
           review_id |-> NULL, all_reviews |-> {}]

NoCalls == [c \in 1..MaxCalls |-> NoCall]

\* role check and db.products.find_one
create_review_begin(c, user, product_id, rating) ==
    /\ calls[c].phase = "idle"
    /\ ListingUnchanged
    /\ CheckoutUnchanged
    /\ UNCHANGED <<calc, pending, seen, flightVars, reviews, nextReview>>
    /\ IF Role(user) \notin {"buyer", "seller"}
       THEN /\ last' = Reply(user, "create_review", 403, ReviewArg(product_id, rating), NULL, FALSE)
            /\ UNCHANGED calls
       ELSE IF product_id \notin DOMAIN products
       THEN /\ last' = Reply(user, "create_review", 404, ReviewArg(product_id, rating), NULL, FALSE)
            /\ UNCHANGED calls
       ELSE /\ calls' = [calls EXCEPT ![c] = [phase |-> "check", user |-> user,
                                              product_id |-> product_id, rating |-> rating,
                                              review_id |-> NULL, all_reviews |-> {}]]
            /\ UNCHANGED last

\* db.reviews.find_one({"product_id": ..., "buyer_id": ...})
create_review_check(c) ==
    /\ calls[c].phase = "check"
    /\ ListingUnchanged
    /\ CheckoutUnchanged
    /\ UNCHANGED <<calc, pending, seen, flightVars, reviews, nextReview>>
    /\ IF \E r \in reviews : r.product_id = calls[c].product_id /\ r.buyer_id = calls[c].user
       THEN /\ last' = Reply(calls[c].user, "create_review", 400,
                             ReviewArg(calls[c].product_id, calls[c].rating), NULL, FALSE)
            /\ calls' = [calls EXCEPT ![c] = NoCall]
       ELSE /\ calls' = [calls EXCEPT ![c].phase = "insert"]
            /\ UNCHANGED last

\* db.reviews.insert_one
create_review_insert(c) ==
    /\ calls[c].phase = "insert"
    /\ nextReview <= MaxReviews
    /\ ListingUnchanged
    /\ CheckoutUnchanged
    /\ UNCHANGED <<last, calc, pending, seen, flightVars>>
    /\ reviews' = reviews \cup {Review(ReviewId(nextReview), calls[c].user, calls[c].product_id,
                                       calls[c].rating)}
    /\ nextReview' = nextReview + 1
    /\ calls' = [calls EXCEPT ![c].phase = "recount"]

\* db.reviews.find({"product_id": ...}).to_list(1000); the mean of no review divides by zero
create_review_recount(c) ==
    /\ calls[c].phase = "recount"
    /\ ListingUnchanged
    /\ CheckoutUnchanged
    /\ UNCHANGED <<calc, pending, seen, flightVars, reviews, nextReview>>
    /\ IF ReviewsOf(reviews, calls[c].product_id) = {}
       THEN /\ last' = Reply(calls[c].user, "create_review", 500,
                             ReviewArg(calls[c].product_id, calls[c].rating), NULL, FALSE)
            /\ calls' = [calls EXCEPT ![c] = NoCall]
       ELSE /\ calls' = [calls EXCEPT ![c].phase = "update",
                                      ![c].all_reviews = ReviewsOf(reviews, calls[c].product_id)]
            /\ UNCHANGED last

\* db.products.update_one and the reply
create_review_update(c) ==
    /\ calls[c].phase = "update"
    /\ CheckoutUnchanged
    /\ UNCHANGED <<nextProduct, calc, pending, seen, flightVars, reviews, nextReview>>
    /\ products' = UpdateRating(products, calls[c].product_id, Aggregate(calls[c].all_reviews))
    /\ last' = Reply(calls[c].user, "create_review", 200,
                     ReviewArg(calls[c].product_id, calls[c].rating), NULL, FALSE)
    /\ calls' = [calls EXCEPT ![c] = NoCall]

\* delete_review one await at a time.
\* db.reviews.find_one on the id, and the check of the caller
delete_review_begin(c, user, review_id) ==
    /\ calls[c].phase = "idle"
    /\ ListingUnchanged
    /\ CheckoutUnchanged
    /\ UNCHANGED <<calc, pending, seen, flightVars, reviews, nextReview>>
    /\ IF \A r \in reviews : r.id # review_id
       THEN /\ last' = Reply(user, "delete_review", 404, review_id, NULL, FALSE)
            /\ UNCHANGED calls
       ELSE LET review == CHOOSE r \in reviews : r.id = review_id
            IN  IF review.buyer_id # user /\ Role(user) # "admin"
                THEN /\ last' = Reply(user, "delete_review", 403, review_id, NULL, FALSE)
                     /\ UNCHANGED calls
                ELSE /\ calls' = [calls EXCEPT ![c] =
                                      [phase |-> "delete", user |-> user,
                                       product_id |-> review.product_id, rating |-> 0,
                                       review_id |-> review_id, all_reviews |-> {}]]
                     /\ UNCHANGED last

\* db.reviews.delete_one on the id
delete_review_delete(c) ==
    /\ calls[c].phase = "delete"
    /\ ListingUnchanged
    /\ CheckoutUnchanged
    /\ UNCHANGED <<last, calc, pending, seen, flightVars, nextReview>>
    /\ reviews' = {r \in reviews : r.id # calls[c].review_id}
    /\ calls' = [calls EXCEPT ![c].phase = "delete_recount"]

\* db.reviews.find({"product_id": ...}).to_list(1000)
delete_review_recount(c) ==
    /\ calls[c].phase = "delete_recount"
    /\ ListingUnchanged
    /\ CheckoutUnchanged
    /\ UNCHANGED <<last, calc, pending, seen, flightVars, reviews, nextReview>>
    /\ calls' = [calls EXCEPT ![c].phase = "delete_update",
                              ![c].all_reviews = ReviewsOf(reviews, calls[c].product_id)]

\* db.products.update_one and the reply
delete_review_update(c) ==
    /\ calls[c].phase = "delete_update"
    /\ CheckoutUnchanged
    /\ UNCHANGED <<nextProduct, calc, pending, seen, flightVars, reviews, nextReview>>
    /\ products' = UpdateRating(products, calls[c].product_id, Aggregate(calls[c].all_reviews))
    /\ last' = Reply(calls[c].user, "delete_review", 200, calls[c].review_id, NULL, FALSE)
    /\ calls' = [calls EXCEPT ![c] = NoCall]

(***************************************************************************)
(* Specifications                                                          *)
(***************************************************************************)
NoReply ==
    [user |-> NULL, op |-> "none", code |-> 0, arg |-> NULL, ret |-> NULL, gateway_called |-> FALSE,
     sent |-> <<>>,
     trace |-> <<>>,
     before |-> [orders |-> 0, transactions |-> 0]]

NoCalc == [volume_cm3 |-> 0, material |-> "PLA", creator_royalty_percent |-> 0,
           pricing |-> calculate_price(0, "PLA", 0)]

Init ==
    /\ products = <<>>
    /\ nextProduct = 1
    /\ orders = <<>>
    /\ transactions = <<>>
    /\ gatewayOrders = 0
    /\ last = NoReply
    /\ calc = NoCalc
    /\ pending = NoPending
    /\ seen = NoneSeen
    /\ reviews = {}
    /\ nextReview = 1
    /\ calls = NoCalls
    /\ verifying = NoVerifying
    /\ toggling = NoToggling

Buyers == {"buyer1"}

Sellers == {"seller1"}

Admins == {"admin1"}

\* Listing ledger and checkout: listings are created, priced, moderated and bought
Quantities == {1, 2}

ShopVolumes == {100}

ShopNewVolumes == {300}

ShopMaterials == {"PLA"}

ShopRoyalties == {20}

\* room left for orders under the bound of the model
Room == MaxOrders - Len(orders)

Next ==
    \/ \E u \in Sellers, m \in ShopMaterials, r \in ShopRoyalties, stl \in Meshes(ShopVolumes) :
          upload_stl(u, m, r, stl, TRUE)
    \/ \E u \in Sellers, p \in AllProductIds, v \in ShopNewVolumes :
          update_product_volume(u, p, v)
    \/ \E u \in Sellers, p \in AllProductIds : toggle_publish(u, p)
    \/ \E u \in Admins, p \in AllProductIds, a \in BOOLEAN : approve_product(u, p, a)
    \/ \E u \in Sellers, p \in AllProductIds : delete_product(u, p)
    \/ \E u \in Admins, p \in AllProductIds : admin_delete_product(u, p)
    \/ \E u \in Buyers, items \in Carts(AllProductIds, Quantities, Room), ok \in BOOLEAN :
          create_order(u, items, ok)
    \/ \E u \in Buyers, m \in ShopMaterials, v \in ShopVolumes, q \in {1}, ok \in BOOLEAN :
          create_custom_print_order(u, m, v, q, ok)

Spec == Init /\ [][Next]_vars

\* Checkout alone, from any catalogue the ledger operations above can leave behind:
\* each listing absent or present with any combination of the two flags; listing i was
\* uploaded from a mesh of i cm3, so that listings differ in price
Listed(i, published, approved) ==
    [NewProduct("seller1", "PLA", calculate_price(100 * i, "PLA", 20))
        EXCEPT !.is_published = published, !.is_approved = approved]

Catalogues ==
    UNION {{c \in [{ProductId(i) : i \in ids} ->
                      UNION {{Listed(i, p, a) : p \in BOOLEAN, a \in BOOLEAN} : i \in ids}] :
               \A i \in ids : c[ProductId(i)].volume_cm3 = 100 * i}
           : ids \in SUBSET (1..MaxProducts)}

InitCheckout ==
    /\ products \in Catalogues
    /\ nextProduct = MaxProducts + 1
    /\ orders = <<>>
    /\ transactions = <<>>
    /\ gatewayOrders = 0
    /\ last = NoReply
    /\ calc = NoCalc
    /\ pending = NoPending
    /\ seen = NoneSeen
    /\ reviews = {}
    /\ nextReview = 1
    /\ calls = NoCalls
    /\ verifying = NoVerifying
    /\ toggling = NoToggling

NextCheckout ==
    \/ \E u \in Buyers, items \in Carts(AllProductIds, Quantities, Room), ok \in BOOLEAN :
          create_order(u, items, ok)
    \/ \E u \in Buyers, m \in ShopMaterials, v \in ShopVolumes, q \in {1}, ok \in BOOLEAN :
          create_custom_print_order(u, m, v, q, ok)

SpecCheckout == InitCheckout /\ [][NextCheckout]_vars

\* Payment and fulfillment: a fixed catalogue of one purchasable listing
Catalogue ==
    ProductId(1) :> [NewProduct("seller1", "PLA", calculate_price(100, "PLA", 20))
                        EXCEPT !.is_published = TRUE, !.is_approved = TRUE]

InitFulfillment ==
    /\ products = Catalogue
    /\ nextProduct = 2
    /\ orders = <<>>
    /\ transactions = <<>>
    /\ gatewayOrders = 0
    /\ last = NoReply
    /\ calc = NoCalc
    /\ pending = NoPending
    /\ seen = NoneSeen
    /\ reviews = {}
    /\ nextReview = 1
    /\ calls = NoCalls
    /\ verifying = NoVerifying
    /\ toggling = NoToggling

RequestedStatuses == ValidStatusSet \cup {"Cancelled"}

NextFulfillment ==
    \/ \E u \in Buyers, items \in Carts(DOMAIN Catalogue, {1}, Room), ok \in BOOLEAN :
          create_order(u, items, ok)
    \/ \E u \in Buyers, g \in AllGatewayIds, p \in PaymentIds, ok \in BOOLEAN :
          verify_payment(u, g, p, ok, MailUp)
    \/ \E u \in Admins \cup Buyers, o \in 1..MaxOrders, s \in RequestedStatuses :
          update_order_status(u, o, s)

SpecFulfillment == InitFulfillment /\ [][NextFulfillment]_vars

\* Payment notifications: checkouts of listed and custom prints, then verifications by
\* the buyer or by another authenticated user, the email service failing at will
NextNotify ==
    \/ \E u \in Buyers, items \in Carts(DOMAIN Catalogue, {1}, Room), ok \in BOOLEAN :
          create_order(u, items, ok)
    \/ \E u \in Buyers, m \in ShopMaterials, v \in ShopVolumes, q \in {1}, ok \in BOOLEAN :
          create_custom_print_order(u, m, v, q, ok)
    \/ \E u \in Buyers \cup Admins, g \in AllGatewayIds, ok \in BOOLEAN,
          mail_ok \in MailOutcomes :
          verify_payment(u, g, "pay_1", ok, mail_ok)

SpecNotify == InitFulfillment /\ [][NextNotify]_vars

\* Payments: checkouts of listed and custom prints, verifications with either payment
\* id and either outcome of the signature check, and the admin moving orders on
PaymentStatuses == {"Printing", "Delivered"}

NextPayment ==
    \/ \E u \in Buyers, items \in Carts(DOMAIN Catalogue, {1}, 1), ok \in BOOLEAN :
          Room >= 1 /\ create_order(u, items, ok)
    \/ \E u \in Buyers, m \in ShopMaterials, v \in ShopVolumes, q \in {1}, ok \in BOOLEAN :
          create_custom_print_order(u, m, v, q, ok)
    \/ \E u \in Buyers, g \in AllGatewayIds, p \in PaymentIds, ok \in BOOLEAN :
          verify_payment(u, g, p, ok, MailUp)
    \/ \E u \in Admins, o \in 1..MaxOrders, s \in PaymentStatuses :
          update_order_status(u, o, s)

SpecPayment == InitFulfillment /\ [][NextPayment]_vars

\* Orders and their listing: a purchasable listing is bought, then repriced,
\* unpublished, disapproved or deleted
NextSnapshot ==
    \/ \E u \in Buyers, items \in Carts(DOMAIN Catalogue, Quantities, Room), ok \in BOOLEAN :
          create_order(u, items, ok)
    \/ \E u \in Sellers, p \in DOMAIN Catalogue, v \in ShopNewVolumes :
          update_product_volume(u, p, v)
    \/ \E u \in Sellers, p \in DOMAIN Catalogue : toggle_publish(u, p)
    \/ \E u \in Admins, p \in DOMAIN Catalogue, a \in BOOLEAN : approve_product(u, p, a)
    \/ \E u \in Sellers, p \in DOMAIN Catalogue : delete_product(u, p)
    \/ \E u \in Admins, p \in DOMAIN Catalogue : admin_delete_product(u, p)

SpecSnapshot == InitFulfillment /\ [][NextSnapshot]_vars

\* Cart checkout step by step, with crashes of the process
NextCrash ==
    \/ \E u \in Buyers, items \in Carts(DOMAIN Catalogue, Quantities, Room) :
          create_order_begin(u, items)
    \/ create_order_line
    \/ \E ok \in BOOLEAN : create_order_gateway(ok)
    \/ create_order_insert_order
    \/ create_order_insert_transaction
    \/ crash

SpecCrash == InitFulfillment /\ [][NextCrash]_vars

\* Cart checkout step by step, the seller and the admin working on the listing
\* between its awaits
NextRace ==
    \/ \E u \in Buyers, items \in Carts(DOMAIN Catalogue, Quantities, Room) :
          create_order_begin(u, items)
    \/ create_order_line
    \/ \E ok \in BOOLEAN : create_order_gateway(ok)
    \/ create_order_insert_order
    \/ create_order_insert_transaction
    \/ \E u \in Sellers, p \in DOMAIN Catalogue, v \in ShopNewVolumes :
          update_product_volume(u, p, v)
    \/ \E u \in Sellers, p \in DOMAIN Catalogue : toggle_publish(u, p)
    \/ \E u \in Admins, p \in DOMAIN Catalogue, a \in BOOLEAN : approve_product(u, p, a)
    \/ \E u \in Sellers, p \in DOMAIN Catalogue : delete_product(u, p)

SpecRace == InitFulfillment /\ [][NextRace]_vars

\* Two admins working from their lists of orders while a payment is verified
RacingAdmins == {"admin1", "admin2"}

RaceStatuses == {"Printing", "Shipped"}

NextStatusRace ==
    \/ \E u \in Buyers, items \in Carts(DOMAIN Catalogue, {1}, Room) :
          create_order(u, items, TRUE)
    \/ \E u \in RacingAdmins \cup Buyers : get_all_orders(u)
    \/ \E u \in RacingAdmins, o \in 1..MaxOrders, s \in RaceStatuses :
          seen[u][o] # NULL /\ update_order_status(u, o, s)
    \/ \E u \in Buyers, g \in AllGatewayIds :
          verify_payment(u, g, "pay_1", TRUE, MailUp)

SpecStatusRace == InitFulfillment /\ [][NextStatusRace]_vars

\* Custom prints alone: whatever material, volume and quantity the form declares
CustomMaterials == {"PLA", "Resin", "Wood"}

CustomVolumes == {-100, 0, 150}

NextCustom ==
    \E u \in Buyers, m \in CustomMaterials, v \in CustomVolumes, q \in Quantities,
       ok \in BOOLEAN :
        create_custom_print_order(u, m, v, q, ok)

SpecCustom == Init /\ [][NextCustom]_vars

\* Requests with bad material, royalty or volume, to the three handlers that take them
BadRoyalties == {-5, 20, 55}

BadVolumes == {-100, 0, 300}

NextValidation ==
    \/ \E u \in Sellers, m \in {"PLA", "Wood"}, r \in BadRoyalties, stl \in Meshes(ShopVolumes) :
          upload_stl(u, m, r, stl, TRUE)
    \/ \E u \in Sellers, p \in AllProductIds, v \in BadVolumes :
          update_product_volume(u, p, v)
    \/ \E u \in Buyers, m \in {"PLA", "Wood"}, v \in CustomVolumes, ok \in BOOLEAN :
          create_custom_print_order(u, m, v, 1, ok)

SpecValidation == Init /\ [][NextValidation]_vars

\* Moderation: listings are uploaded, published by their seller, approved by an admin,
\* and bought; every role tries both flags
NextModeration ==
    \/ \E u \in Sellers, m \in ShopMaterials, r \in ShopRoyalties, stl \in Meshes(ShopVolumes) :
          upload_stl(u, m, r, stl, TRUE)
    \/ \E u \in Sellers \cup Buyers \cup Admins, p \in AllProductIds : toggle_publish(u, p)
    \/ \E u \in Sellers \cup Buyers \cup Admins, p \in AllProductIds, a \in BOOLEAN :
          approve_product(u, p, a)
    \/ \E u \in Buyers, items \in Carts(AllProductIds, {1}, 1), ok \in BOOLEAN :
          Room >= 1 /\ create_order(u, items, ok)

SpecModeration == Init /\ [][NextModeration]_vars

\* The two flags of a listing against every writer of listings: uploads, new volumes,
\* deletions, and every role trying to publish and to approve
NextFlags ==
    \/ \E u \in Sellers, m \in ShopMaterials, r \in ShopRoyalties, stl \in Meshes(ShopVolumes) :
          upload_stl(u, m, r, stl, TRUE)
    \/ \E u \in Sellers, p \in AllProductIds, v \in ShopNewVolumes :
          update_product_volume(u, p, v)
    \/ \E u \in Sellers \cup Buyers \cup Admins, p \in AllProductIds : toggle_publish(u, p)
    \/ \E u \in Sellers \cup Buyers \cup Admins, p \in AllProductIds, a \in BOOLEAN :
          approve_product(u, p, a)
    \/ \E u \in Sellers, p \in AllProductIds : delete_product(u, p)

SpecFlags == Init /\ [][NextFlags]_vars

\* Verifications in flight together, interleaved at their awaits, on paid-for carts
NextVerifyRace ==
    \/ \E u \in Buyers, items \in Carts(DOMAIN Catalogue, {1}, 1) :
          Room >= 1 /\ create_order(u, items, TRUE)
    \/ \E c \in 1..MaxCalls, u \in Buyers, g \in AllGatewayIds, p \in PaymentIds,
          ok \in BOOLEAN :
          verify_payment_begin(c, u, g, p, ok)
    \/ \E c \in 1..MaxCalls : verify_payment_orders(c)
    \/ \E c \in 1..MaxCalls : verify_payment_transaction(c)

SpecVerifyRace == InitFulfillment /\ [][NextVerifyRace]_vars

\* Publish toggles of the seller in flight together, interleaved at their awaits
NextToggleRace ==
    \/ \E c \in 1..MaxCalls, u \in Sellers \cup Buyers, p \in AllProductIds :
          toggle_publish_begin(c, u, p)
    \/ \E c \in 1..MaxCalls : toggle_publish_write(c)
    \/ \E u \in Admins, p \in AllProductIds, a \in BOOLEAN : approve_product(u, p, a)
    \/ \E u \in Buyers, items \in Carts(DOMAIN Catalogue, {1}, 1) :
          Room >= 1 /\ create_order(u, items, TRUE)

SpecToggleRace == InitFulfillment /\ [][NextToggleRace]_vars

\* Checkouts with any integer as quantity
AnyQuantities == {-1, 0, 1, 2}

NextQuantity ==
    \/ \E u \in Buyers, items \in Carts(DOMAIN Catalogue, AnyQuantities, Room),
          ok \in BOOLEAN :
          create_order(u, items, ok)
    \/ \E u \in Buyers, m \in ShopMaterials, v \in ShopVolumes, q \in AnyQuantities,
          ok \in BOOLEAN :
          create_custom_print_order(u, m, v, q, ok)

SpecQuantity == InitFulfillment /\ [][NextQuantity]_vars

\* Reviews of one approved listing, each request run to completion
Reviewers == {"buyer1", "buyer2", "seller1"}

ReviewRatings == {4, 5}

NextReviews ==
    \/ \E u \in Reviewers \cup Admins, p \in AllProductIds, r \in ReviewRatings :
          create_review(u, p, r)
    \/ \E u \in {"buyer1"} \cup Admins, id \in AllReviewIds : delete_review(u, id)

SpecReviews == InitFulfillment /\ [][NextReviews]_vars

\* Review requests in flight together, interleaved at their awaits
NextReviewRace ==
    \/ \E c \in 1..MaxCalls, u \in {"buyer1", "seller1"}, r \in ReviewRatings :
          create_review_begin(c, u, ProductId(1), r)
    \/ \E c \in 1..MaxCalls : create_review_check(c)
    \/ \E c \in 1..MaxCalls : create_review_insert(c)
    \/ \E c \in 1..MaxCalls : create_review_recount(c)
    \/ \E c \in 1..MaxCalls : create_review_update(c)

SpecReviewRace == InitFulfillment /\ [][NextReviewRace]_vars

\* Reviews written and deleted by requests in flight together
NextReviewDrift ==
    \/ \E c \in 1..MaxCalls, u \in {"buyer1", "buyer2"} :
          create_review_begin(c, u, ProductId(1), 4)
    \/ \E c \in 1..MaxCalls : create_review_check(c)
    \/ \E c \in 1..MaxCalls : create_review_insert(c)
    \/ \E c \in 1..MaxCalls : create_review_recount(c)
    \/ \E c \in 1..MaxCalls : create_review_update(c)
    \/ \E c \in 1..MaxCalls, u \in {"buyer1"}, id \in AllReviewIds :
          delete_review_begin(c, u, id)
    \/ \E c \in 1..MaxCalls : delete_review_delete(c)
    \/ \E c \in 1..MaxCalls : delete_review_recount(c)
    \/ \E c \in 1..MaxCalls : delete_review_update(c)

SpecReviewDrift == InitFulfillment /\ [][NextReviewDrift]_vars

\* Pricing calculator alone: one call per step, on inputs of two decimals
PriceMaterials == ValidMaterials \cup {"Wood"}

\* the exact quotient n / d lies halfway between two integers
IsTie(n, d) == 2 * (n % d) = d

\* no amount of the breakdown is an exact tie: on these inputs the program's binary
\* floating-point result and the exact decimal result round to the same paise
NoTie(input) ==
    LET base == input.volume_cm3 * material_rates(input.material)
    IN  /\ ~IsTie(base * 20, 100)
        /\ ~IsTie(base * input.creator_royalty_percent, 100)
        /\ ~IsTie(base * (100 + 20 + input.creator_royalty_percent), 100)

PriceInputs ==
    {input \in [volume_cm3 : 0..MaxVolume, material : PriceMaterials,
                creator_royalty_percent : MIN_ROYALTY..MAX_ROYALTY] : NoTie(input)}

Priced(input) ==
    [volume_cm3 |-> input.volume_cm3, material |-> input.material,
     creator_royalty_percent |-> input.creator_royalty_percent,
     pricing |-> calculate_price(input.volume_cm3, input.material,
                                 input.creator_royalty_percent)]

Price ==
    /\ \E input \in PriceInputs : calc' = Priced(input)
    /\ UNCHANGED <<products, nextProduct, orders, transactions, gatewayOrders, last, pending,
                 seen, reviewVars, flightVars>>

NextPrice == Price

SpecPrice == Init /\ [][NextPrice]_vars

(***************************************************************************)
(* Properties                                                              *)
(***************************************************************************)
Purchasable(product_id) ==
    /\ product_id \in DOMAIN products
    /\ products[product_id].is_published
    /\ products[product_id].is_approved

RECURSIVE CartTotal(_)
CartTotal(items) ==
    IF Len(items) = 0 THEN 0
    ELSE products[items[1].product_id].final_price * items[1].quantity
         + CartTotal(Tail(items))

TransactionsOf(gateway_id) ==
    {t \in 1..Len(transactions) : transactions[t].razorpay_order_id = gateway_id}

OrdersOf(gateway_id) ==
    {i \in 1..Len(orders) : orders[i].razorpay_order_id = gateway_id}

CheckoutSucceeded == last.op = "create_order" /\ last.code = 200

\* C1: a successful cart checkout of N lines persists exactly N orders in status
\* 'Order placed', all with the one gateway order id of the reply, and exactly one
\* transaction 'created' with that id; the returned total and the transaction amount
\* are the sum over the lines of listing final_price x quantity.
C1_CheckoutPersistsBatch ==
    CheckoutSucceeded /\ (\A i \in 1..Len(last.arg) : Purchasable(last.arg[i].product_id)) =>
        LET items == last.arg
            gateway_id == last.ret.razorpay_order_id
            total == CartTotal(items)
        IN  /\ Len(orders) = last.before.orders + Len(items)
            /\ OrdersOf(gateway_id) = (last.before.orders + 1)..Len(orders)
            /\ \A i \in OrdersOf(gateway_id) : orders[i].status = "Order placed"
            /\ Len(transactions) = last.before.transactions + 1
            /\ TransactionsOf(gateway_id) = {Len(transactions)}
            /\ transactions[Len(transactions)].status = "created"
            /\ transactions[Len(transactions)].amount = total
            /\ last.ret.amount = total

\* the test's cart: two lines of different quantities, checked out together
C1_Witness ==
    /\ CheckoutSucceeded
    /\ Len(last.arg) = 2
    /\ last.arg[1].quantity = 2
    /\ last.arg[2].quantity = 1
    /\ last.arg[1].product_id # last.arg[2].product_id
    /\ products[last.arg[1].product_id].final_price
           # products[last.arg[2].product_id].final_price

VerifySucceeded == last.op = "verify_payment" /\ last.code = 200

VerifyFailed == last.op = "verify_payment" /\ last.code = 400

\* C2: after a verify_payment whose signature check succeeds, every order of that
\* gateway order id carries the submitted payment id and is 'Order placed', the
\* transaction of that id is 'completed' with the same payment id, and the orders and
\* transactions of every other gateway order id are unchanged.
C2_VerifyMarksBatchPaid ==
    [][VerifySucceeded' =>
        LET gateway_id == last'.arg.razorpay_order_id
            payment_id == last'.arg.razorpay_payment_id
        IN  /\ Len(orders') = Len(orders)
            /\ Len(transactions') = Len(transactions)
            /\ \A i \in 1..Len(orders) :
                  IF orders[i].razorpay_order_id = gateway_id
                  THEN orders'[i] = [orders[i] EXCEPT !.razorpay_payment_id = payment_id,
                                                      !.status = "Order placed"]
                  ELSE orders'[i] = orders[i]
            /\ \A t \in 1..Len(transactions) :
                  IF transactions[t].razorpay_order_id = gateway_id
                  THEN transactions'[t] =
                           [transactions[t] EXCEPT !.razorpay_payment_id = payment_id,
                                                   !.status = "completed"]
                  ELSE transactions'[t] = transactions[t]]_vars

\* a batch of two orders was verified
C2_Witness ==
    /\ VerifySucceeded
    /\ Cardinality(OrdersOf(last.arg.razorpay_order_id)) = 2
    /\ \A i \in OrdersOf(last.arg.razorpay_order_id) :
          orders[i].razorpay_payment_id = last.arg.razorpay_payment_id
    /\ \E t \in TransactionsOf(last.arg.razorpay_order_id) :
          transactions[t].status = "completed"

Completed(gateway_id) ==
    \E t \in TransactionsOf(gateway_id) : transactions[t].status = "completed"

\* C3: re-invoking verify_payment for a gateway order id whose batch is already
\* completed changes no order status, no payment id and no transaction, whatever
\* admin status updates happened since the first verification.
C3_ReverifyIdempotent ==
    [][(last'.op = "verify_payment" /\ Completed(last'.arg.razorpay_order_id)) =>
          (orders' = orders /\ transactions' = transactions)]_vars

StatusRank(status) == CHOOSE k \in 1..Len(valid_statuses) : valid_statuses[k] = status

\* C4: every change of an order's status moves it to the immediately following state
\* of Order placed -> Printing -> Post-processing -> Shipped -> Delivered.
C4_StatusAdvancesOneStep ==
    [][\A i \in 1..Len(orders) :
          orders'[i].status # orders[i].status =>
              StatusRank(orders'[i].status) = StatusRank(orders[i].status) + 1]_vars

GatewayFailed ==
    /\ last.op \in {"create_order", "create_custom_print_order"}
    /\ last.gateway_called
    /\ last.code = 500
    /\ last.ret.detail = "gateway error"

\* C6: if the gateway's order creation fails during a cart or custom-print checkout,
\* that call persists no order and no transaction.
C6_GatewayFailurePersistsNothing ==
    GatewayFailed =>
        /\ Len(orders) = last.before.orders
        /\ Len(transactions) = last.before.transactions

\* the gateway refused a cart of two purchasable lines
C6_Witness ==
    /\ GatewayFailed
    /\ last.op = "create_order"
    /\ Len(last.arg) = 2

\* C7: every stored listing has final_price = base_cost + platform_margin +
\* creator_royalty over its stored fields.
C7_FinalPriceIsSumOfStoredParts ==
    \A p \in DOMAIN products :
        products[p].final_price =
            products[p].base_cost + products[p].platform_margin + products[p].creator_royalty

\* C8: for a valid material and a royalty in [0,50], base_cost is volume x rate and
\* final_price is the sum of the returned base_cost, platform_margin and creator_royalty
\* (a sum of two-decimal amounts, which rounding to two decimals leaves as it is).
C8_BreakdownAddsUp ==
    (/\ calc.material \in ValidMaterials
     /\ calc.creator_royalty_percent \in MIN_ROYALTY..MAX_ROYALTY) =>
        /\ calc.pricing.base_cost = calc.volume_cm3 * material_rates(calc.material)
        /\ calc.pricing.final_price =
               calc.pricing.base_cost + calc.pricing.platform_margin
                   + calc.pricing.creator_royalty

\* C9: a cart checkout with a line, at any position, naming a missing listing or one
\* not both published and approved is rejected, persists no order and no transaction
\* and requests no gateway order: a checkout that reached the gateway had only
\* purchasable lines, and one that did not was rejected and persisted nothing.
C9_BadLineRejectsCart ==
    last.op = "create_order" =>
        IF last.gateway_called
        THEN \A i \in 1..Len(last.arg) : Purchasable(last.arg[i].product_id)
        ELSE /\ last.code \in {400, 404}
             /\ Len(orders) = last.before.orders
             /\ Len(transactions) = last.before.transactions

\* the second line was the bad one, after a purchasable first line
C9_Witness ==
    /\ last.op = "create_order"
    /\ last.code \in {400, 404}
    /\ last.ret.line = 2
    /\ ~Purchasable(last.ret.product_id)
    /\ \E p \in DOMAIN products : Purchasable(p)

\* C10: a cart checkout with an empty item list fails with a validation error,
\* persists no order and no transaction and requests no gateway order: only a
\* non-empty cart reaches the gateway, and a rejection that names no line is the
\* empty-cart validation error.
C10_EmptyCartRejected ==
    last.op = "create_order" =>
        IF last.gateway_called
        THEN Len(last.arg) > 0
        ELSE /\ Len(orders) = last.before.orders
             /\ Len(transactions) = last.before.transactions
             /\ last.ret.line = 0 => (last.code = 400 /\ last.ret.detail = "Cart is empty")

\* the empty cart was rejected while a purchasable listing existed
C10_Witness ==
    /\ last.op = "create_order"
    /\ last.code = 400
    /\ last.ret.detail = "Cart is empty"
    /\ \E p \in DOMAIN products : Purchasable(p)


StatusUpdateBy(role_is_admin) ==
    /\ last.op = "update_order_status"
    /\ (Role(last.user) = "admin") = role_is_admin

\* C11: update_order_status called by an actor whose role is not admin fails with the
\* authorization error 403 and leaves every order unchanged, whatever the requested
\* status and whether or not the order id exists.
C11_NonAdminStatusUpdateForbidden ==
    [][StatusUpdateBy(FALSE)' => (last'.code = 403 /\ orders' = orders)]_vars

\* a buyer asked for a valid status on an order that exists
C11_Witness ==
    /\ StatusUpdateBy(FALSE)
    /\ last.code = 403
    /\ last.arg.order_id \in 1..Len(orders)
    /\ last.arg.status = "Shipped"
    /\ orders[last.arg.order_id].status = "Order placed"

\* C12: every persisted order's status is one of the five named states, and an admin
\* status update whose target is outside them is rejected with the invalid-status
\* error 400 and leaves the orders unchanged.
C12_StatusVocabulary ==
    [][/\ \A i \in 1..Len(orders') : orders'[i].status \in ValidStatusSet
       /\ (StatusUpdateBy(TRUE)' /\ last'.arg.status \notin ValidStatusSet) =>
              (last'.code = 400 /\ orders' = orders)]_vars

\* an admin asked for 'Cancelled' on an order that exists
C12_Witness ==
    /\ StatusUpdateBy(TRUE)
    /\ last.code = 400
    /\ last.arg.status = "Cancelled"
    /\ last.arg.order_id \in 1..Len(orders)

\* C13: an admin status update with a valid target status on an order id that matches
\* no persisted order fails with the not-found error 404, creates no order and changes
\* no existing order.
C13_UnknownOrderNotFound ==
    [][(/\ StatusUpdateBy(TRUE)'
        /\ last'.arg.status \in ValidStatusSet
        /\ last'.arg.order_id \notin 1..Len(orders)) =>
            (last'.code = 404 /\ orders' = orders)]_vars

\* an admin asked for 'Shipped' on an order id that does not exist, others existing
C13_Witness ==
    /\ StatusUpdateBy(TRUE)
    /\ last.code = 404
    /\ last.arg.status = "Shipped"
    /\ last.arg.order_id \notin 1..Len(orders)
    /\ Len(orders) > 0


\* C14: Delivered is terminal: once an order's status is Delivered, no later operation
\* (admin status update, payment verification or re-verification, checkout) changes
\* that order's status.
C14_DeliveredIsTerminal ==
    [][\A i \in 1..Len(orders) :
          orders[i].status = "Delivered" => orders'[i].status = "Delivered"]_vars


SentTo(kind, recipient) ==
    {n \in 1..Len(last.sent) : last.sent[n].kind = kind /\ last.sent[n].to = recipient}

\* C15: a successful verification of a batch sends exactly one order confirmation to
\* each distinct buyer of the batch's orders and exactly one new-order notification to
\* each distinct seller of them (a seller that is a user), however many orders the
\* batch holds and whichever authenticated user made the call.
C15_OneNotificationPerRecipient ==
    VerifySucceeded =>
        LET batch == OrdersOf(last.arg.razorpay_order_id)
        IN  /\ \A b \in {orders[i].buyer_id : i \in batch} :
                  Cardinality(SentTo("order_confirmation", b)) = 1
            /\ \A s \in {orders[i].seller_id : i \in batch} \cap Users :
                  Cardinality(SentTo("new_order", s)) = 1

\* C16: re-invoking verify_payment for a gateway order id that is already completed
\* sends no further buyer or seller notification.
C16_ReverifySendsNothing ==
    [][(last'.op = "verify_payment" /\ Completed(last'.arg.razorpay_order_id)) =>
          last'.sent = <<>>]_vars

\* C17: a verify_payment call with a valid signature reports success whatever
\* notifications fail: the batch's orders are paid, the transaction is 'completed',
\* and every notification of the batch is attempted, one confirmation per order and
\* one seller notification per order whose seller is a user.
C17_NotificationFailureSwallowed ==
    [][(last'.op = "verify_payment" /\ last'.arg.razorpay_signature) =>
        LET gateway_id == last'.arg.razorpay_order_id
            batch == {i \in 1..Len(orders') : orders'[i].razorpay_order_id = gateway_id}
            attempted(kind, i) ==
                \E n \in 1..Len(last'.sent) : /\ last'.sent[n].kind = kind
                                              /\ last'.sent[n].order_id = orders'[i].id
        IN  /\ last'.code = 200
            /\ \A i \in batch :
                  /\ orders'[i].razorpay_payment_id = last'.arg.razorpay_payment_id
                  /\ orders'[i].status = "Order placed"
                  /\ attempted("order_confirmation", i)
                  /\ orders'[i].seller_id \in Users => attempted("new_order", i)
            /\ \A t \in 1..Len(transactions') :
                  transactions'[t].razorpay_order_id = gateway_id =>
                      transactions'[t].status = "completed"
            /\ Len(last'.sent) = Cardinality(batch)
                   + Cardinality({i \in batch : orders'[i].seller_id \in Users})]_vars

\* the first notification of a batch of two orders failed, the other three followed
C17_Witness ==
    /\ VerifySucceeded
    /\ Len(last.sent) = 4
    /\ ~last.sent[1].delivered
    /\ last.sent[4].delivered
    /\ Completed(last.arg.razorpay_order_id)


ListingOperations ==
    {"update_product_volume", "toggle_publish", "approve_product", "delete_product",
     "admin_delete_product"}

\* C18: an order's total_amount is a snapshot: no operation on its listing (volume
\* update with price recomputation, publish toggle, approval change, deletion by
\* seller or admin) changes any field of an already persisted order.
C18_OrderIsSnapshot ==
    [][last'.op \in ListingOperations => orders' = orders]_vars

\* a listing with an order on it was repriced, and the order kept the old amount
C18_Witness ==
    /\ last.op = "update_product_volume"
    /\ last.code = 200
    /\ \E i \in 1..Len(orders) :
          /\ orders[i].product_id = last.arg
          /\ orders[i].total_amount # products[last.arg].final_price * orders[i].quantity


\* the gateway order ids issued so far
IssuedGatewayIds == {GatewayOrderId(k - 1) : k \in 1..gatewayOrders}

CheckoutReturned ==
    last.op \in {"create_order", "create_custom_print_order"} /\ last.code = 200

\* C19: there is at most one transaction per gateway order id, and exactly one once a
\* checkout call has returned that id, from then on, however many orders share the
\* id and however many verifications are made.
C19_OneTransactionPerBatch ==
    [][/\ \A g \in AllGatewayIds : Cardinality(TransactionsOf(g)') <= 1
       /\ CheckoutReturned' =>
              Cardinality({t \in 1..Len(transactions') :
                  transactions'[t].razorpay_order_id = last'.ret.razorpay_order_id}) = 1
       /\ \A g \in AllGatewayIds :
             Cardinality(TransactionsOf(g)) = 1 => Cardinality(TransactionsOf(g)') = 1]_vars

\* a batch of two orders, verified, with its one transaction
C19_Witness ==
    /\ VerifySucceeded
    /\ last.arg.razorpay_order_id \in IssuedGatewayIds
    /\ Cardinality(OrdersOf(last.arg.razorpay_order_id)) = 2
    /\ Cardinality(TransactionsOf(last.arg.razorpay_order_id)) = 1
    /\ Len(transactions) = 1


Crashed == last.op = "create_order" /\ last.code = 0 /\ pending.phase = "idle"

\* C20: if the process crashes at any point of the batch write of a cart checkout of
\* N lines, the store holds either all N orders and the transaction of that gateway
\* order id, or none of them.
C20_CrashLeavesAllOrNothing ==
    (Crashed /\ last.ret.razorpay_order_id # NULL) =>
        LET gateway_id == last.ret.razorpay_order_id
        IN  \/ OrdersOf(gateway_id) = {} /\ TransactionsOf(gateway_id) = {}
            \/ /\ Cardinality(OrdersOf(gateway_id)) = Len(last.arg)
               /\ Cardinality(TransactionsOf(gateway_id)) = 1


\* C21: under any interleaving of a cart checkout with listing operations, each order
\* is persisted for a listing that is, at that moment, published and approved and
\* priced at the unit price used for the line.
C21_LineAtomicWithListing ==
    [][\A i \in (Len(orders) + 1)..Len(orders') :
          /\ Purchasable(orders'[i].product_id)
          /\ orders'[i].total_amount =
                 products[orders'[i].product_id].final_price * orders'[i].quantity]_vars


\* the status admin a last knew order i to have: the one a's own update has just
\* been answered with, or else the one in a's last list of orders
StatusBasis(a, i) ==
    IF /\ last.op = "update_order_status"
       /\ last.code = 200
       /\ last.user = a
       /\ last.arg.order_id = i
    THEN last.arg.status
    ELSE seen[a][i]

\* C22: order status writes are conditional: a status changes only by an admin update
\* whose writer last knew the order in the status it still has (a verification, whose
\* basis is the unpaid 'Order placed', changes no status), so that no update is lost.
C22_StatusWritesConditional ==
    [][\A i \in 1..Len(orders) :
          orders'[i].status # orders[i].status =>
              /\ last'.op = "update_order_status"
              /\ StatusBasis(last'.user, i) = orders[i].status]_vars


CustomCheckoutSucceeded == last.op = "create_custom_print_order" /\ last.code = 200

\* C23: a successful custom-print checkout persists exactly one order, with seller
\* 'custom_print', listing 'custom' and status 'Order placed', and exactly one
\* transaction 'created' with the same gateway order id; the order's total_amount is
\* the price of the declared volume and material at 20% margin and the default 10%
\* royalty, times the quantity.
C23_CustomPrintPersistsOneOrder ==
    CustomCheckoutSucceeded =>
        LET gateway_id == last.ret.razorpay_order_id
            order == orders[Len(orders)]
            unit_price == RoundDiv(last.arg.volume_cm3 * material_rates(last.arg.material)
                                       * (100 + 20 + 10), 100)
        IN  /\ Len(orders) = last.before.orders + 1
            /\ OrdersOf(gateway_id) = {Len(orders)}
            /\ order.seller_id = "custom_print"
            /\ order.product_id = "custom"
            /\ order.status = "Order placed"
            /\ order.quantity = last.arg.quantity
            /\ order.total_amount = unit_price * last.arg.quantity
            /\ Len(transactions) = last.before.transactions + 1
            /\ TransactionsOf(gateway_id) = {Len(transactions)}
            /\ transactions[Len(transactions)].status = "created"
            /\ transactions[Len(transactions)].amount = order.total_amount

\* two resin prints of 1.50 cm3 were ordered after another custom print
C23_Witness ==
    /\ CustomCheckoutSucceeded
    /\ last.arg.material = "Resin"
    /\ last.arg.volume_cm3 = 150
    /\ last.arg.quantity = 2
    /\ orders[Len(orders)].total_amount = 3120
    /\ Len(orders) = 2


\* C24: every request carrying a material outside {PLA, ABS, Resin}, a royalty outside
\* [0,50] or a non-positive volume is rejected with a validation error and persists
\* nothing: a request that was accepted carried none of them, and a request answered
\* with a validation error changed no listing, no order and no transaction.
C24_BadInputRejected ==
    [][/\ (last'.op = "upload_stl" /\ last'.code = 200) =>
              /\ products'[last'.arg].material \in ValidMaterials
              /\ products'[last'.arg].creator_royalty_percent \in MIN_ROYALTY..MAX_ROYALTY
       /\ (last'.op = "update_product_volume" /\ last'.code = 200) =>
              products'[last'.arg].volume_cm3 > 0
       /\ (last'.op = "create_custom_print_order" /\ last'.code = 200) =>
              /\ last'.arg.material \in ValidMaterials
              /\ last'.arg.volume_cm3 > 0
       /\ (/\ last'.op \in {"upload_stl", "update_product_volume",
                            "create_custom_print_order"}
           /\ last'.code = 400) =>
              /\ products' = products
              /\ orders' = orders
              /\ transactions' = transactions]_vars


\* C25: for a material name outside {PLA, ABS, Resin}, calculate_price returns the
\* breakdown it returns for PLA with the same volume and royalty percent: rate 5 and
\* the same base cost, margin, royalty and final price (the material is echoed).
C25_UnknownMaterialPricedAsPLA ==
    calc.material \notin ValidMaterials =>
        /\ calc.pricing.rate_per_cm3 = 5
        /\ calc.pricing =
               [calculate_price(calc.volume_cm3, "PLA", calc.creator_royalty_percent)
                   EXCEPT !.material = calc.material]

\* 'Wood', 0.08 cm3 at 13% royalty: base 0.40, final 0.53
C25_Witness ==
    /\ calc.material = "Wood"
    /\ calc.volume_cm3 = 8
    /\ calc.creator_royalty_percent = 13
    /\ calc.pricing.base_cost = 40
    /\ calc.pricing.final_price = 53

\* C26: there is at most one review per listing and buyer, also when the same buyer's
\* create_review requests for one listing are in flight together
C26_OneReviewPerBuyer ==
    \A r1 \in reviews, r2 \in reviews :
        (r1.product_id = r2.product_id /\ r1.buyer_id = r2.buyer_id) => r1.id = r2.id

\* C27: after each review request, run to completion, review_count is the number of stored
\* reviews of the listing and avg_rating is the mean of their ratings, 0 and 0 with no review
C27_AggregateIsExactMean ==
    \A p \in DOMAIN products :
        LET rs == ReviewsOf(reviews, p)
        IN  /\ products[p].review_count = Cardinality(rs)
            /\ products[p].avg_rating * Cardinality(rs) = 10 * SumRatings(rs)

\* C27, amended: avg_rating is the mean rounded to one decimal
C27_AggregateIsRoundedMean ==
    \A p \in DOMAIN products :
        LET rs == ReviewsOf(reviews, p)
        IN  /\ products[p].review_count = Cardinality(rs)
            /\ products[p].avg_rating =
                   IF rs = {} THEN 0 ELSE RoundDiv(10 * SumRatings(rs), Cardinality(rs))

\* three reviews of one listing whose mean, 13/3, has no one-decimal form
C27_Witness ==
    /\ last.op = "create_review"
    /\ last.code = 200
    /\ \E p \in DOMAIN products :
          /\ Cardinality(ReviewsOf(reviews, p)) = 3
          /\ SumRatings(ReviewsOf(reviews, p)) = 13
          /\ products[p].avg_rating = 43

\* the parser was handed a mesh it cannot parse
UnparsableUpload(reply) ==
    /\ reply.op = "upload_stl"
    /\ \E i \in 1..Len(reply.trace) : reply.trace[i] = Called("calculate_stl_volume", FALSE)

\* C28: an upload whose mesh cannot be parsed is answered with a validation error, after
\* the parser alone was called: no price is calculated, no blob is stored, no listing is
\* persisted, and the listings are as before
C28_UnparsableMeshRejected ==
    [][UnparsableUpload(last') =>
           /\ last'.code = 400
           /\ last'.trace = <<Called("calculate_stl_volume", FALSE)>>
           /\ products' = products
           /\ nextProduct' = nextProduct]_vars

C28_Witness ==
    /\ UnparsableUpload(last)
    /\ last.code = 400
    /\ products # <<>>

\* C29: a listing is uploaded unpublished and unapproved; only its seller's toggle changes
\* is_published and only an admin's decision changes is_approved; and a cart checkout
\* succeeds only when every listing it names is, as checkout reads it, both published and
\* approved, so that a listing with one flag alone is never bought
C29_BothFlagsGatePurchase ==
    [][/\ (last'.op = "upload_stl" /\ last'.code = 200) =>
              /\ last'.arg \notin DOMAIN products
              /\ ~products'[last'.arg].is_published
              /\ ~products'[last'.arg].is_approved
       /\ \A p \in DOMAIN products \cap DOMAIN products' :
              /\ products'[p].is_published # products[p].is_published =>
                     /\ last'.op = "toggle_publish"
                     /\ last'.user = products[p].seller_id
              /\ products'[p].is_approved # products[p].is_approved =>
                     /\ last'.op = "approve_product"
                     /\ Role(last'.user) = "admin"
       /\ (last'.op = "create_order" /\ last'.code = 200) =>
              \A i \in 1..Len(last'.arg) : Purchasable(last'.arg[i].product_id)]_vars

\* a listing uploaded here, then published and approved, was bought
C29_Witness ==
    /\ last.op = "create_order"
    /\ last.code = 200
    /\ Len(last.arg) = 1
    /\ Purchasable(last.arg[1].product_id)
    /\ \E p \in DOMAIN products : ~Purchasable(p)

\* C30: within one cart checkout, an order is persisted only after the gateway issued the
\* id it is stamped with and before any transaction of that id; the transaction is
\* persisted only when every order of the cart is, and names the order of the first cart
\* line; no persisted order is without a gateway order id
C30_CheckoutStepsOrdered ==
    [][/\ Len(orders') > Len(orders) =>
              LET order == orders'[Len(orders')]
              IN  /\ order.razorpay_order_id \in IssuedGatewayIds
                  /\ TransactionsOf(order.razorpay_order_id) = {}
                  /\ transactions' = transactions
       /\ Len(transactions') > Len(transactions) =>
              LET transaction == transactions'[Len(transactions')]
                  batch == OrdersOf(transaction.razorpay_order_id)
                  first == CHOOSE i \in batch : \A j \in batch : i <= j
              IN  /\ orders' = orders
                  /\ Cardinality(batch) = Len(last'.arg)
                  /\ transaction.order_id = orders[first].id
                  /\ orders[first].product_id = last'.arg[1].product_id
                  /\ orders[first].quantity = last'.arg[1].quantity
       /\ \A i \in 1..Len(orders') : orders'[i].razorpay_order_id # NULL]_vars

\* a cart of two different lines was checked out step by step
C30_Witness ==
    /\ CheckoutSucceeded
    /\ Len(last.arg) = 2
    /\ last.arg[1].quantity # last.arg[2].quantity
    /\ pending.phase = "idle"
    /\ Cardinality(OrdersOf(last.ret.razorpay_order_id)) = 2
    /\ TransactionsOf(last.ret.razorpay_order_id) # {}

\* the last request was a verification whose signature check succeeded, for this id
VerifiedNow(reply, gateway_id) ==
    /\ reply.op = "verify_payment"
    /\ reply.code = 200
    /\ reply.arg.razorpay_signature
    /\ reply.arg.razorpay_order_id = gateway_id

\* C31: a transaction is persisted 'created' with no payment id; its status changes only
\* from 'created' to 'completed', and only in a verify_payment call for its gateway order
\* id whose signature check succeeded; no transaction is removed or reordered
C31_TransactionOnlyCompletes ==
    [][/\ Len(transactions') >= Len(transactions)
       /\ \A t \in (Len(transactions) + 1)..Len(transactions') :
              /\ transactions'[t].status = "created"
              /\ transactions'[t].razorpay_payment_id = NULL
       /\ \A t \in 1..Len(transactions) :
              transactions'[t].status # transactions[t].status =>
                  /\ transactions[t].status = "created"
                  /\ transactions'[t].status = "completed"
                  /\ VerifiedNow(last', transactions[t].razorpay_order_id)]_vars

\* one transaction was completed by a verification, then verified again with another
\* payment id, while a later one is still 'created'
C31_Witness ==
    /\ Len(transactions) = 2
    /\ transactions[1].status = "completed"
    /\ transactions[1].razorpay_payment_id = "pay_2"
    /\ transactions[2].status = "created"
    /\ VerifiedNow(last, transactions[1].razorpay_order_id)
    /\ \E i \in 1..Len(orders) : orders[i].status = "Printing"

\* the user has an order for the listing
Purchased(user, product_id) ==
    \E i \in 1..Len(orders) : orders[i].buyer_id = user /\ orders[i].product_id = product_id

\* C32: every stored review was written by a user of role buyer who has an order for the
\* reviewed listing
C32_ReviewerPurchased ==
    \A r \in reviews :
        /\ Role(r.buyer_id) = "buyer"
        /\ Purchased(r.buyer_id, r.product_id)

PricingFields(product) ==
    [material |-> product.material,
     volume_cm3 |-> product.volume_cm3,
     base_cost |-> product.base_cost,
     platform_margin |-> product.platform_margin,
     creator_royalty_percent |-> product.creator_royalty_percent,
     creator_royalty |-> product.creator_royalty,
     final_price |-> product.final_price]

\* C33: is_approved of a listing changes only in an admin's approve_product call on it and
\* is_published only in a toggle_publish call on it by its seller; toggle_publish by
\* another user and approve_product by a non-admin fail and change no listing; and neither
\* operation adds, removes or reprices a listing
C33_FlagsHaveOneWriter ==
    [][/\ \A p \in DOMAIN products \cap DOMAIN products' :
              /\ products'[p].is_approved # products[p].is_approved =>
                     /\ last'.op = "approve_product"
                     /\ last'.arg = p
                     /\ Role(last'.user) = "admin"
              /\ products'[p].is_published # products[p].is_published =>
                     /\ last'.op = "toggle_publish"
                     /\ last'.arg = p
                     /\ last'.user = products[p].seller_id
       /\ (/\ last'.op = "toggle_publish"
           /\ last'.arg \in DOMAIN products
           /\ products[last'.arg].seller_id # last'.user) =>
              /\ last'.code # 200
              /\ products' = products
       /\ (last'.op = "approve_product" /\ Role(last'.user) # "admin") =>
              /\ last'.code # 200
              /\ products' = products
       /\ last'.op \in {"toggle_publish", "approve_product"} =>
              /\ DOMAIN products' = DOMAIN products
              /\ \A p \in DOMAIN products :
                     PricingFields(products'[p]) = PricingFields(products[p])]_vars

\* a repriced listing was approved by the admin after its seller published it
C33_Witness ==
    /\ last.op = "approve_product"
    /\ last.code = 200
    /\ products[last.arg].is_published
    /\ products[last.arg].is_approved
    /\ products[last.arg].volume_cm3 = 300
    /\ \E p \in DOMAIN products : ~products[p].is_published /\ ~products[p].is_approved

\* C34: an order is persisted without a payment id; its payment id changes only in a
\* verify_payment call for its gateway order id whose signature check succeeded, to the
\* payment id of that call; checkout, custom print checkout and status updates leave the
\* payment id of every order as it was
C34_PaymentIdOnlyByVerification ==
    [][/\ Len(orders') >= Len(orders)
       /\ \A i \in (Len(orders) + 1)..Len(orders') : orders'[i].razorpay_payment_id = NULL
       /\ \A i \in 1..Len(orders) :
              orders'[i].razorpay_payment_id # orders[i].razorpay_payment_id =>
                  /\ VerifiedNow(last', orders[i].razorpay_order_id)
                  /\ orders'[i].razorpay_payment_id = last'.arg.razorpay_payment_id
       /\ last'.op \in {"create_order", "create_custom_print_order", "update_order_status"} =>
              \A i \in 1..Len(orders) :
                  orders'[i].razorpay_payment_id = orders[i].razorpay_payment_id]_vars

\* a paid order was moved on by the admin, beside an order never paid
C34_Witness ==
    /\ last.op = "update_order_status"
    /\ last.code = 200
    /\ Len(orders) = 2
    /\ orders[last.arg.order_id].razorpay_payment_id # NULL
    /\ orders[last.arg.order_id].status = "Delivered"
    /\ \E i \in 1..Len(orders) : orders[i].razorpay_payment_id = NULL

\* C35: in every state, also between the steps of a verification and with verifications
\* of one gateway order id in flight together, the orders of a batch carry a payment id
\* exactly when the batch's transaction is 'completed', and then the transaction's
C35_BatchPaidWithTransaction ==
    \A t \in 1..Len(transactions) :
        \A i \in OrdersOf(transactions[t].razorpay_order_id) :
            /\ orders[i].razorpay_payment_id # NULL <=> transactions[t].status = "completed"
            /\ orders[i].razorpay_payment_id = transactions[t].razorpay_payment_id

\* C36: an order is beyond 'Order placed' only when its payment has been verified: no
\* order without a payment id is in status Printing, Post-processing, Shipped or Delivered
C36_FulfillmentOnlyWhenPaid ==
    \A i \in 1..Len(orders) :
        orders[i].status # ORDER_PLACED => orders[i].razorpay_payment_id # NULL

\* C37: verify_payment answers 'Payment verified successfully' only when the gateway
\* order id of the call is carried by an order or a transaction of the store
C37_VerifySucceedsOnlyOnBatch ==
    (last.op = "verify_payment" /\ last.code = 200) =>
        \/ OrdersOf(last.arg.razorpay_order_id) # {}
        \/ TransactionsOf(last.arg.razorpay_order_id) # {}

\* C38: every persisted order has a quantity of at least 1 and an amount of at least 0,
\* and every transaction an amount of at least 0
C38_QuantitiesPositive ==
    /\ \A i \in 1..Len(orders) : orders[i].quantity >= 1 /\ orders[i].total_amount >= 0
    /\ \A t \in 1..Len(transactions) : transactions[t].amount >= 0

\* C39: every toggle_publish call of the owner that completes flips is_published of its
\* listing, also when calls overlap in time; as no other operation writes the flag, after k
\* completed calls it is the initial value flipped k times
C39_ToggleFlips ==
    [][\A c \in 1..MaxCalls :
           (toggling[c].phase = "write" /\ toggling'[c].phase = "idle") =>
               products'[toggling[c].product_id].is_published
                   = ~products[toggling[c].product_id].is_published]_vars

\* C40: once every create_review and delete_review call in flight has completed, the
\* review_count of each listing is the number of reviews stored for it
C40_CountMatchesWhenQuiet ==
    (\A c \in 1..MaxCalls : calls[c].phase = "idle") =>
        \A p \in DOMAIN products :
            products[p].review_count = Cardinality(ReviewsOf(reviews, p))

====
